---- MODULE Spec2Model ----
(***************************************************************************)
(* NextBridge: the bridge router (services/bridge.py), the way the drivers *)
(* hand messages to it, and the start-up sequence of main.py.              *)
(*                                                                         *)
(* Python strings are sequences of characters.  A brace field of a format  *)
(* string ("{msg}", "{0}", a lone "{") is kept as one element, so that     *)
(* str.format can be modelled field by field.  A Python dict whose         *)
(* iteration order matters is a sequence of <<key, value>> pairs; a dict   *)
(* that is only looked up and compared is a function.                      *)
(***************************************************************************)
EXTENDS Integers, Sequences, FiniteSets, TLC

VARIABLES
    phase,      \* position of main(): "init", "rules", "config", "spawn",
                \* "running", "exit" (main returned before any driver),
                \* "finished" (gather returned), "shutdown" (cancelled,
                \* draining) or "stopped"
    rules,      \* Bridge._rules
    senders,    \* Bridge._senders: instance_id -> registered callback
    sensitive,  \* Bridge._sensitive
    config,     \* main(): raw, the parsed config file
    started,    \* driver tasks whose start() has run its first step, in spawn order
    calls,      \* on_message invocations, by hand-over order
    sent,       \* history: sender invocations, in the order they were made
    tasks,      \* the driver tasks of main(), parallel to started: where each
                \* start() is, how often it was entered
    log,        \* records written by the supervisor and the connection loops
    registry,   \* drivers/registry.py: _REGISTRY
    fetch,      \* one call of services.media.fetch_attachment or filename_for
    db          \* services/db.py: the rows of message_mappings, the saves that
                \* were committed, the last query and its answer

vars == <<phase, rules, senders, sensitive, config, started, calls, sent,
          tasks, log, registry, fetch, db>>

(***************************************************************************)
(* Bounds of the model.                                                    *)
(***************************************************************************)
MaxRules == 2
MaxMsgs == 2
MaxNest == 2
MaxFmt == 2
MaxOrder == 3
MaxOrderMsgs == 1
MaxAttempts == 2
MaxHandlerErrors == 1
MaxRegs == 3
MaxBytes == 2
MaxBody == 3
ChunkSize == 2

(***************************************************************************)
(* Strings.                                                                *)
(***************************************************************************)
Contains(s, t) ==
    \E i \in 0..(Len(t) - Len(s)) : SubSeq(t, i + 1, i + Len(s)) = s

UpperCase ==
    << "A","B","C","D","E","F","G","H","I","J","K","L","M",
       "N","O","P","Q","R","S","T","U","V","W","X","Y","Z" >>

LowerCase ==
    << "a","b","c","d","e","f","g","h","i","j","k","l","m",
       "n","o","p","q","r","s","t","u","v","w","x","y","z" >>

LowerChar(ch) ==
    IF \E i \in DOMAIN UpperCase : UpperCase[i] = ch
    THEN LowerCase[CHOOSE i \in DOMAIN UpperCase : UpperCase[i] = ch]
    ELSE ch

Lower(s) == [i \in 1..Len(s) |-> LowerChar(s[i])]

(***************************************************************************)
(* JSON values of the parsed config.                                       *)
(***************************************************************************)
JStr(s) == [ty |-> "str", s |-> s]
JNum(n) == [ty |-> "num", n |-> n]
JDict(items) == [ty |-> "dict", items |-> items]
JList(items) == [ty |-> "list", items |-> items]

_SENSITIVE_KEY_PATTERNS ==
    { <<"t","o","k","e","n">>,
      <<"s","e","c","r","e","t">>,
      <<"p","a","s","s","w","o","r","d">>,
      <<"w","e","b","h","o","o","k","_","u","r","l">> }

\* A mutant of _is_sensitive_entry: the key is compared without lower-casing.
_is_sensitive_entry_case(k, v) ==
    /\ v.ty = "str"
    /\ v.s # << >>
    /\ \E p \in _SENSITIVE_KEY_PATTERNS : Contains(p, k)

\* bridge.py line 20: isinstance(v, str) and v and any(p in k.lower() ...)
_is_sensitive_entry(k, v) ==
    /\ v.ty = "str"
    /\ v.s # << >>
    /\ \E p \in _SENSITIVE_KEY_PATTERNS : Contains(p, Lower(k))

RECURSIVE _collect_sensitive(_)
\* The set `found` after _collect_sensitive(obj, found) on an empty set.
_collect_sensitive(obj) ==
    IF obj.ty = "dict"
    THEN UNION { IF _is_sensitive_entry(obj.items[i][1], obj.items[i][2])
                 THEN { obj.items[i][2].s }
                 ELSE _collect_sensitive(obj.items[i][2])
                 : i \in 1..Len(obj.items) }
    ELSE IF obj.ty = "list"
    THEN UNION { _collect_sensitive(obj.items[i]) : i \in 1..Len(obj.items) }
    ELSE {}

(***************************************************************************)
(* Channel addresses, msg blocks and messages.                             *)
(***************************************************************************)
\* A channel address value: a string, or a number with its str() rendering.
AStr(r) == [ty |-> "str", rep |-> r]
AInt(r) == [ty |-> "int", rep |-> r]

\* str(v)
Str(v) == v.rep

\* d.get(key, "") on a dict kept as a function
GetOrEmpty(d, key) == IF key \in DOMAIN d THEN d[key] ELSE AStr("")

\* A value of a msg block: a (format) string or a number.
MStr(s) == [ty |-> "str", s |-> s, n |-> 0]
MNum(n) == [ty |-> "num", s |-> << >>, n |-> n]

EmptyDict == << >>

\* Ordered dicts: sequences of <<key, value>> with distinct keys.
DictKeys(d) == { d[i][1] : i \in 1..Len(d) }
DictGet(d, k) == d[CHOOSE i \in 1..Len(d) : d[i][1] = k][2]

\* A mutant of Merge: on a key of both blocks the rule-level value wins.
Merge_rule_wins(g, l) ==
    [k \in (DOMAIN g) \cup (DOMAIN l) |-> IF k \in DOMAIN g THEN g[k] ELSE l[k]]

\* {**g, **l}
Merge(g, l) ==
    [k \in (DOMAIN g) \cup (DOMAIN l) |-> IF k \in DOMAIN l THEN l[k] ELSE g[k]]

(***************************************************************************)
(* str.format over ctx, field by field from the left.  A named field that  *)
(* ctx lacks raises KeyError, a positional field IndexError, an unbalanced *)
(* brace ValueError; the first failure ends the expansion.                 *)
(***************************************************************************)
NamedFields ==
    { "{platform}", "{from}", "{username}", "{user_id}", "{user_avatar}",
      "{msg}", "{nick}" }

FieldName(tok) ==
    CASE tok = "{platform}" -> "platform"
      [] tok = "{from}" -> "from"
      [] tok = "{username}" -> "username"
      [] tok = "{user_id}" -> "user_id"
      [] tok = "{user_avatar}" -> "user_avatar"
      [] tok = "{msg}" -> "msg"
      [] OTHER -> "nick"

RECURSIVE FormatFrom(_, _, _, _)
FormatFrom(fmt, i, ctx, acc) ==
    IF i > Len(fmt) THEN [exc |-> "none", text |-> acc]
    ELSE IF fmt[i] \in NamedFields
    THEN IF FieldName(fmt[i]) \in DOMAIN ctx
         THEN FormatFrom(fmt, i + 1, ctx, acc \o ctx[FieldName(fmt[i])])
         ELSE [exc |-> "KeyError", text |-> << >>]
    ELSE IF fmt[i] = "{0}" THEN [exc |-> "IndexError", text |-> << >>]
    ELSE IF fmt[i] \in {"{", "}"} THEN [exc |-> "ValueError", text |-> << >>]
    ELSE IF fmt[i] = "{{" THEN FormatFrom(fmt, i + 1, ctx, Append(acc, "{"))
    ELSE IF fmt[i] = "}}" THEN FormatFrom(fmt, i + 1, ctx, Append(acc, "}"))
    ELSE FormatFrom(fmt, i + 1, ctx, Append(acc, fmt[i]))

Format(fmt, ctx) == FormatFrom(fmt, 1, ctx, << >>)

\* A mutant of Ctx: username and user_id change places.
Ctx_swapped(msg) ==
    [ platform    |-> msg.platform,
      from        |-> <<msg.instance_id>>,
      username    |-> msg.user_id,
      user_id     |-> msg.user,
      user_avatar |-> msg.user_avatar,
      msg         |-> msg.text ]

\* bridge.py lines 100-107
Ctx(msg) ==
    [ platform    |-> msg.platform,
      from        |-> <<msg.instance_id>>,
      username    |-> msg.user,
      user_id     |-> msg.user_id,
      user_avatar |-> msg.user_avatar,
      msg         |-> msg.text ]

\* bridge.py lines 115-121: one value of `extra`
ExtraValue(v, ctx) ==
    IF v.ty = "str" /\ Format(v.s, ctx).exc = "none"
    THEN MStr(Format(v.s, ctx).text)
    ELSE v

\* The first exception of the extra loop that is not a KeyError, or "none".
ExtraExc(msg_cfg, ctx) ==
    LET bad == { k \in (DOMAIN msg_cfg) \ {"msg_format"} :
                    /\ msg_cfg[k].ty = "str"
                    /\ Format(msg_cfg[k].s, ctx).exc \notin {"none", "KeyError"} }
    IN  IF bad = {} THEN "none"
        ELSE Format(msg_cfg[CHOOSE k \in bad : TRUE].s, ctx).exc

\* Bridge._build_formatted: exc is the exception that leaves it ("none" when it
\* returns), warned tells whether the KeyError warning was logged.
_build_formatted(msg, msg_cfg) ==
    LET fmt == IF "msg_format" \in DOMAIN msg_cfg
               THEN msg_cfg["msg_format"] ELSE MStr(<<"{msg}">>)
        ctx == Ctx(msg)
        r   == IF fmt.ty = "str" THEN Format(fmt.s, ctx)
               ELSE [exc |-> "AttributeError", text |-> << >>]
    IN  [ exc |-> IF r.exc \in {"none", "KeyError"}
                  THEN ExtraExc(msg_cfg, ctx) ELSE r.exc,
          formatted |-> IF r.exc = "KeyError" THEN msg.text ELSE r.text,
          warned |-> (r.exc = "KeyError"),
          extra |-> [k \in (DOMAIN msg_cfg) \ {"msg_format"} |->
                        ExtraValue(msg_cfg[k], ctx)] ]

\* A mutant of _is_sensitive: the text is compared whole, not searched.
_is_sensitive_equal(text) ==
    sensitive # {} /\ \E s \in sensitive : s = text

\* Bridge._is_sensitive
_is_sensitive(text) ==
    sensitive # {} /\ \E s \in sensitive : Contains(s, text)

\* Bridge._matches_channel; channels is the rule's "channels" dict
_matches_channel(msg, channels) ==
    /\ msg.instance_id \in DictKeys(channels)
    /\ \A key \in (DOMAIN DictGet(channels, msg.instance_id)) \ {"msg"} :
          Str(GetOrEmpty(msg.channel, key))
            = Str(DictGet(channels, msg.instance_id)[key])

\* Bridge._matches_from; from_cfg is the rule's "from" dict
_matches_from(msg, from_cfg) ==
    /\ msg.instance_id \in DictKeys(from_cfg)
    /\ \A key \in DOMAIN DictGet(from_cfg, msg.instance_id) :
          Str(GetOrEmpty(msg.channel, key))
            = Str(DictGet(from_cfg, msg.instance_id)[key])

(***************************************************************************)
(* One on_message invocation.  A call is a coroutine frame: msg, the rule  *)
(* index ri of on_message's loop, the target index ti of the dispatch      *)
(* loop (0: the rule is still to be matched), the locals formatted/extra   *)
(* of _dispatch (bf).  st is "pending" (a task created and not yet run),   *)
(* "run", "sending" (suspended in `await sender(...)`), "done" or          *)
(* "aborted" (an exception left on_message; exc names it).  trace is the   *)
(* history of what the call did, snd/stable the sender table it started    *)
(* with and whether the table is still that one.                           *)
(***************************************************************************)
Ev(ri, ti, kind) == [ri |-> ri, ti |-> ti, kind |-> kind]

NoFrame == [formatted |-> << >>, extra |-> EmptyDict]

NewCall(id, msg, st) ==
    [ id |-> id, msg |-> msg, st |-> st, ri |-> 1, ti |-> 0, bf |-> NoFrame,
      trace |-> << >>, exc |-> "none", inv |-> << >>,
      snd |-> senders, stable |-> TRUE ]

Targets(rule) == IF rule.type = "connect" THEN rule.channels ELSE rule.to

Raise(c, exc) ==
    [c EXCEPT !.st = "aborted", !.exc = exc,
              !.trace = Append(@, Ev(c.ri, c.ti, "raise"))]

Skip(c, kind) ==
    [c EXCEPT !.ti = @ + 1, !.trace = Append(@, Ev(c.ri, c.ti, kind))]

\* A mutant of _guard_and_send: each target gets the attachments that are left
\* when the first one is taken off the list.
_guard_and_send_pop(c, target_id, target_channel, bf, sndrs) ==
    IF _is_sensitive(bf.formatted) THEN Skip(c, "blocked")
    ELSE IF target_id \notin DOMAIN sndrs THEN Skip(c, "nosender")
    ELSE IF "attachments" \in DOMAIN bf.extra THEN Skip(c, "failed")
    ELSE [c EXCEPT !.st = "sending",
                   !.trace = Append(@, Ev(c.ri, c.ti, "invoke")),
                   !.inv = << [ mid |-> c.id, ri |-> c.ri, ti |-> c.ti,
                                target |-> target_id,
                                channel |-> target_channel,
                                text |-> bf.formatted,
                                extra |-> bf.extra,
                                attachments |->
                                    IF c.msg.attachments = << >> THEN << >>
                                    ELSE Tail(c.msg.attachments),
                                fn |-> sndrs[target_id] ] >>]

\* A mutant of _guard_and_send: the sender is started and not awaited, the loop
\* goes on to the next target at once.
_guard_and_send_nowait(c, target_id, target_channel, bf, sndrs) ==
    IF _is_sensitive(bf.formatted) THEN Skip(c, "blocked")
    ELSE IF target_id \notin DOMAIN sndrs THEN Skip(c, "nosender")
    ELSE IF "attachments" \in DOMAIN bf.extra THEN Skip(c, "failed")
    ELSE [c EXCEPT !.ti = @ + 1,
                   !.trace = Append(@, Ev(c.ri, c.ti, "invoke"))]

\* bridge.py lines 136-149 (and 169-182): the sensitive guard, the sender
\* lookup and the call.  A msg block key named like the call's own keyword
\* ("attachments") makes the call expression raise TypeError inside the try.
_guard_and_send(c, target_id, target_channel, bf, sndrs) ==
    IF _is_sensitive(bf.formatted) THEN Skip(c, "blocked")
    ELSE IF target_id \notin DOMAIN sndrs THEN Skip(c, "nosender")
    ELSE IF "attachments" \in DOMAIN bf.extra THEN Skip(c, "failed")
    ELSE [c EXCEPT !.st = "sending",
                   !.trace = Append(@, Ev(c.ri, c.ti, "invoke")),
                   !.inv = << [ mid |-> c.id, ri |-> c.ri, ti |-> c.ti,
                                target |-> target_id,
                                channel |-> target_channel,
                                text |-> bf.formatted,
                                extra |-> bf.extra,
                                attachments |-> c.msg.attachments,
                                fn |-> sndrs[target_id] ] >>]

\* A mutant of _is_echo: the instance alone decides.
_is_echo_instance(msg, target_id, target_channel) ==
    target_id = msg.instance_id

\* bridge.py lines 133 and 162
_is_echo(msg, target_id, target_channel) ==
    target_id = msg.instance_id /\ target_channel = msg.channel

\* Bridge._dispatch, line 129: entered once the rule matched
_dispatch_enter(c, rule) ==
    LET bf == _build_formatted(c.msg, rule.msg)
        d  == [c EXCEPT !.trace = Append(@, Ev(c.ri, 0, "dispatch"))]
        w  == IF bf.warned
              THEN [d EXCEPT !.trace = Append(@, Ev(c.ri, 0, "warn_format"))]
              ELSE d
    IN  IF bf.exc # "none" THEN Raise(w, bf.exc)
        ELSE [w EXCEPT !.ti = 1,
                       !.bf = [formatted |-> bf.formatted, extra |-> bf.extra]]

\* Bridge._dispatch, lines 131-149: one iteration of the target loop
_dispatch_target(c, rule, sndrs) ==
    LET target_id      == rule.to[c.ti][1]
        target_channel == rule.to[c.ti][2]
    IN  IF _is_echo(c.msg, target_id, target_channel) THEN Skip(c, "echo")
        ELSE _guard_and_send(c, target_id, target_channel, c.bf, sndrs)

\* Bridge._dispatch_connect, lines 157-182: one iteration of the target loop
_dispatch_connect_target(c, rule, sndrs) ==
    LET target_id      == rule.channels[c.ti][1]
        target_cfg     == rule.channels[c.ti][2]
        target_channel == [k \in (DOMAIN target_cfg) \ {"msg"} |-> target_cfg[k]]
        local_msg      == IF "msg" \in DOMAIN target_cfg
                          THEN target_cfg["msg"] ELSE EmptyDict
        bf             == _build_formatted(c.msg, Merge(rule.msg, local_msg))
        w              == IF bf.warned
                          THEN [c EXCEPT !.trace =
                                   Append(@, Ev(c.ri, c.ti, "warn_format"))]
                          ELSE c
    IN  IF _is_echo(c.msg, target_id, target_channel) THEN Skip(c, "echo")
        ELSE IF bf.exc # "none" THEN Raise(w, bf.exc)
        ELSE _guard_and_send(w, target_id, target_channel, bf, sndrs)

\* Bridge.on_message, lines 69-75: the loop body for rule ri
on_message_rule(c, rule) ==
    IF rule.type = "connect"
    THEN IF _matches_channel(c.msg, rule.channels)
         THEN [c EXCEPT !.ti = 1,
                        !.trace = Append(@, Ev(c.ri, 0, "dispatch"))]
         ELSE [c EXCEPT !.ri = @ + 1]
    ELSE IF _matches_from(c.msg, rule.from)
         THEN _dispatch_enter(c, rule)
         ELSE [c EXCEPT !.ri = @ + 1]

\* One step of the coroutine between two suspensions, over the rule list rs.
MicroIn(rs, c, sndrs) ==
    IF c.ri > Len(rs) THEN [c EXCEPT !.st = "done"]
    ELSE IF c.ti = 0 THEN on_message_rule(c, rs[c.ri])
    ELSE IF c.ti > Len(Targets(rs[c.ri]))
    THEN [c EXCEPT !.ri = @ + 1, !.ti = 0, !.bf = NoFrame]
    ELSE IF rs[c.ri].type = "connect"
    THEN _dispatch_connect_target(c, rs[c.ri], sndrs)
    ELSE _dispatch_target(c, rs[c.ri], sndrs)

\* on_message iterates self._rules.
Micro(c, sndrs) == MicroIn(rules, c, sndrs)

RECURSIVE RunIn(_, _, _)
\* The coroutine runs until it suspends in a sender, returns or raises.
RunIn(rs, c, sndrs) ==
    IF c.st # "run" THEN c ELSE RunIn(rs, MicroIn(rs, c, sndrs), sndrs)

Run(c, sndrs) == RunIn(rules, c, sndrs)

\* A mutant of _after_sender: the sender's exception leaves on_message.
_after_sender_propagate(c, outcome) ==
    IF outcome = "ok"
    THEN [c EXCEPT !.st = "run", !.ti = @ + 1, !.inv = << >>,
                   !.trace = Append(@, Ev(c.ri, c.ti, "sent"))]
    ELSE [c EXCEPT !.st = "aborted", !.exc = "SenderError", !.inv = << >>,
                   !.trace = Append(@, Ev(c.ri, c.ti, "failed"))]

\* bridge.py lines 148-151 (and 181-184): the sender returned, or raised an
\* Exception that is caught and logged; the loop goes on either way.
_after_sender(c, outcome) ==
    [c EXCEPT !.st = "run", !.ti = @ + 1, !.inv = << >>,
              !.trace = Append(@, Ev(c.ri, c.ti,
                                     IF outcome = "ok" THEN "sent" ELSE "failed"))]

(***************************************************************************)
(* The environment: driver instances, the rules and configs that may be    *)
(* loaded, the messages that may arrive.                                   *)
(***************************************************************************)
\* The platforms of the registry, in the order main() iterates it (the driver
\* modules are imported in the order of their names).  A Telegram driver
\* registers its sender first thing in start() and its handler awaits
\* on_message; a Rocket.Chat driver registers first thing and hands on_message
\* to a new task; a Mattermost driver registers after its login request.
Registry == <<"mattermost", "rocketchat", "telegram", "webhook">>
RegistersAtStart == {"rocketchat", "telegram", "webhook"}
SpawnsTask == {"rocketchat"}

\* The key a platform has in the config file, which is also the `platform`
\* a driver writes into its messages.
Platform(p) ==
    CASE p = "telegram" -> <<"t","e","l","e","g","r","a","m">>
      [] p = "rocketchat" -> <<"r","o","c","k","e","t","c","h","a","t">>
      [] p = "webhook" -> <<"w","e","b","h","o","o","k">>
      [] OTHER -> <<"m","a","t","t","e","r","m","o","s","t">>

\* A driver task: drv = driver_cls(inst_id, cfg, bridge), named platform/inst_id.
Task(p, inst_id) == [platform |-> p, instance_id |-> inst_id]

\* The callback a driver registers: its own bound method send.
SendOf(t) == [owner |-> t, method |-> "send"]

Secret8 == <<"s","3","c","r","3","t","0","1">>
ShortSecret == <<"a","b">>
TextHi == <<"h","i">>
TextLeak == <<"x">> \o Secret8 \o <<"y">>
TextAb == <<"c","a","b">>

Msg(p, i, key, val, text, atts) ==
    [ platform |-> Platform(p), instance_id |-> i,
      channel |-> (key :> AStr(val)),
      user |-> <<"A","l">>, user_id |-> <<"7">>, user_avatar |-> << >>,
      text |-> text, attachments |-> atts ]

MsgPool ==
    << Msg("telegram", "a", "chat_id", "1", TextHi, << >>),
       Msg("telegram", "a", "chat_id", "1", TextLeak, <<"img">>),
       Msg("telegram", "a", "chat_id", "2", TextHi, << >>),
       Msg("rocketchat", "b", "room_id", "1", TextAb, <<"doc">>) >>

Rule(type, from, to, channels, msg) ==
    [type |-> type, from |-> from, to |-> to, channels |-> channels, msg |-> msg]

RulePool ==
    << \* forward a/1 -> b, c with a format and an extra field
       Rule("forward",
            << <<"a", ("chat_id" :> AStr("1"))>> >>,
            << <<"b", ("room_id" :> AStr("1"))>>,
               <<"c", ("channel_id" :> AStr("9"))>> >>,
            << >>,
            ("msg_format" :> MStr(<<"[", "{username}", "]", "{msg}">>))
              @@ ("custom" :> MStr(<<"{from}">>))),
       \* forward a/1 (written as a number) -> the source itself and b
       Rule("forward",
            << <<"a", ("chat_id" :> AInt("1"))>> >>,
            << <<"a", ("chat_id" :> AStr("1"))>>,
               <<"b", ("room_id" :> AStr("2"))>> >>,
            << >>,
            EmptyDict),
       \* connect a/1 (a number), b/1 (a positional field in its own format),
       \* c (its own msg block over the rule's)
       Rule("connect", << >>, << >>,
            << <<"a", ("chat_id" :> AInt("1"))>>,
               <<"b", ("room_id" :> AStr("1"))
                        @@ ("msg" :> ("msg_format" :> MStr(<<"{0}">>)))>>,
               <<"c", ("channel_id" :> AStr("9"))
                        @@ ("msg" :> ( ("msg_format" :> MStr(<<"{msg}", "?">>))
                                       @@ ("tag" :> MStr(<<"{platform}">>))
                                       @@ ("only" :> MStr(<<"x">>)) ))>> >>,
            ("msg_format" :> MStr(<<"{nick}", "!">>))
              @@ ("tag" :> MStr(<<"{from}">>))
              @@ ("keep" :> MNum(1))),
       \* forward b/1 -> a, c
       Rule("forward",
            << <<"b", ("room_id" :> AStr("1"))>> >>,
            << <<"a", ("chat_id" :> AStr("2"))>>,
               <<"c", ("channel_id" :> AStr("9"))>> >>,
            << >>,
            ("msg_format" :> MStr(<<"{platform}", ":", "{msg}">>))),
       \* connect a/1, b/1 (with an extra field named attachments)
       Rule("connect", << >>, << >>,
            << <<"a", ("chat_id" :> AStr("1"))>>,
               <<"b", ("room_id" :> AStr("1"))
                        @@ ("msg" :> ("attachments" :> MStr(<<"x">>)))>> >>,
            EmptyDict) >>

RuleTables ==
    UNION { [1..n -> 1..Len(RulePool)] : n \in 0..MaxRules }

\* Field names of the driver config blocks.
F_bot_token == <<"b","o","t","_","t","o","k","e","n">>
F_rich_header_host == <<"r","i","c","h","_","h","e","a","d","e","r","_","h","o","s","t">>
F_max_file_size == <<"m","a","x","_","f","i","l","e","_","s","i","z","e">>
F_send_method == <<"s","e","n","d","_","m","e","t","h","o","d">>
F_server_url == <<"s","e","r","v","e","r","_","u","r","l">>
F_auth_token == <<"a","u","t","h","_","t","o","k","e","n">>
F_user_id == <<"u","s","e","r","_","i","d">>
F_webhook_url == <<"w","e","b","h","o","o","k","_","u","r","l">>
F_listen_port == <<"l","i","s","t","e","n","_","p","o","r","t">>
F_listen_path == <<"l","i","s","t","e","n","_","p","a","t","h">>
F_webhook_token == <<"w","e","b","h","o","o","k","_","t","o","k","e","n">>
F_token == <<"t","o","k","e","n">>
F_url == <<"u","r","l">>
F_method == <<"m","e","t","h","o","d">>
F_headers == <<"h","e","a","d","e","r","s">>
F_bogus == <<"b","o","g","u","s">>

V_api == <<"a","p","i">>
V_webhook == <<"w","e","b","h","o","o","k">>

\* TelegramConfig, RocketChatConfig, MattermostConfig: the declared fields
Schema(p) ==
    CASE p = "telegram" -> { F_bot_token, F_max_file_size, F_rich_header_host }
      [] p = "rocketchat" ->
            { F_send_method, F_server_url, F_auth_token, F_user_id, F_webhook_url,
              F_listen_port, F_listen_path, F_webhook_token, F_max_file_size }
      [] p = "webhook" -> { F_url, F_method, F_headers }
      [] OTHER -> { F_server_url, F_token, F_max_file_size }

\* The fields declared without a default
Required(p) ==
    CASE p = "telegram" -> { F_bot_token }
      [] p = "rocketchat" -> {}
      [] p = "webhook" -> { F_url }
      [] OTHER -> { F_server_url, F_token }

\* The declared type of a field: int for the sizes and the port, a dict for
\* the headers, a choice of three strings for the method, else str
FieldTy(key) ==
    IF key \in { F_max_file_size, F_listen_port } THEN "num"
    ELSE IF key = F_headers THEN "dict"
    ELSE IF key = F_method THEN "method"
    ELSE "str"

\* A value passes as the declared type: a str field takes a string, an int
\* field takes a number or a string of decimal digits, which is converted.
Validates(v, ty) ==
    IF ty = "str" THEN v.ty = "str"
    ELSE IF ty = "dict"
    THEN v.ty = "dict" /\ \A i \in 1..Len(v.items) : v.items[i][2].ty = "str"
    ELSE IF ty = "method"
    THEN v.ty = "str" /\ v.s \in { <<"P","O","S","T">>, <<"P","U","T">>,
                                   <<"P","A","T","C","H">> }
    ELSE \/ v.ty = "num"
         \/ /\ v.ty = "str"
            /\ v.s # << >>
            /\ \A i \in 1..Len(v.s) :
                  v.s[i] \in {"0", "1", "2", "3", "4", "5", "6", "7", "8", "9"}

HasField(block, key) == \E i \in 1..Len(block.items) : block.items[i][1] = key

\* The string a block gives a str field, or its default
FieldStr(block, key, default) ==
    IF HasField(block, key)
    THEN block.items[CHOOSE i \in 1..Len(block.items) : block.items[i][1] = key][2].s
    ELSE default

\* RocketChatConfig._check_send_config
_check_send_config(block) ==
    LET send_method == FieldStr(block, F_send_method, V_api)
    IN  IF send_method = V_api
        THEN /\ FieldStr(block, F_server_url, << >>) # << >>
             /\ FieldStr(block, F_auth_token, << >>) # << >>
             /\ FieldStr(block, F_user_id, << >>) # << >>
        ELSE IF send_method = V_webhook
        THEN FieldStr(block, F_webhook_url, << >>) # << >>
        ELSE FALSE

\* A mutant of model_validate: a field the schema does not declare is ignored.
model_validate_ignore_extra(p, block) ==
    /\ block.ty = "dict"
    /\ \A key \in Required(p) : HasField(block, key)
    /\ \A i \in 1..Len(block.items) :
          block.items[i][1] \in Schema(p) =>
              Validates(block.items[i][2], FieldTy(block.items[i][1]))
    /\ p = "rocketchat" => _check_send_config(block)

\* config_cls.model_validate(inst_raw) raises no ValidationError: the block is
\* a dict, has no field the schema does not declare (extra="forbid"), has the
\* required fields, each value passes as the declared type, and the model validator
\* accepts it.
model_validate(p, block) ==
    /\ block.ty = "dict"
    /\ \A i \in 1..Len(block.items) : block.items[i][1] \in Schema(p)
    /\ \A key \in Required(p) : HasField(block, key)
    /\ \A i \in 1..Len(block.items) :
          Validates(block.items[i][2], FieldTy(block.items[i][1]))
    /\ p = "rocketchat" => _check_send_config(block)

\* raw.get(platform, {}).items(): <<instance key, block>> in file order
Instances(cfg, p) ==
    IF \E i \in 1..Len(cfg.items) : cfg.items[i][1] = Platform(p)
    THEN cfg.items[CHOOSE i \in 1..Len(cfg.items) :
                      cfg.items[i][1] = Platform(p)][2].items
    ELSE << >>

\* main(), lines 79-85: the flag after the validation loop
config_ok(cfg) ==
    \A n \in 1..Len(Registry) :
        \A i \in 1..Len(Instances(cfg, Registry[n])) :
            model_validate(Registry[n], Instances(cfg, Registry[n])[i][2])

TasksOf(cfg, p) ==
    [i \in 1..Len(Instances(cfg, p)) |-> Task(p, Instances(cfg, p)[i][1][1])]

\* A mutant of DriverTasks: the instances of the last registered platform get
\* no task.
DriverTasks_skip_last(cfg) ==
    TasksOf(cfg, Registry[1]) \o TasksOf(cfg, Registry[2]) \o TasksOf(cfg, Registry[3])

\* main(), lines 97-104: driver_tasks, one task per validated instance, by
\* platform in registry order and by instance in file order
DriverTasks(cfg) ==
    TasksOf(cfg, Registry[1]) \o TasksOf(cfg, Registry[2])
        \o TasksOf(cfg, Registry[3]) \o TasksOf(cfg, Registry[4])

TaskPool == { Task(Registry[n], i) : n \in 1..Len(Registry), i \in {"a", "b", "c"} }

TokenA == <<"t","g","t","o","k","e","n","1">>
TokenC == <<"m","m","t","o","k","e","n","1">>
UrlB == <<"h","t","t","p",":","/","/","h","/","k">>
UrlC == <<"h","t","t","p",":","/","/","m">>

MattermostBlock == JDict(<< <<F_server_url, JStr(UrlC)>>, <<F_token, JStr(TokenC)>> >>)

ConfigPool ==
    << \* one instance each
       JDict(<< << Platform("mattermost"), JDict(<< << <<"c">>, MattermostBlock >> >>) >>,
                << Platform("rocketchat"),
                   JDict(<< << <<"b">>,
                               JDict(<< <<F_send_method, JStr(V_webhook)>>,
                                        <<F_webhook_url, JStr(UrlB)>> >>) >> >>) >>,
                << Platform("telegram"),
                   JDict(<< << <<"a">>,
                               JDict(<< <<F_bot_token, JStr(TokenA)>> >>) >> >>) >> >>),
       \* the Mattermost instance has the id of the Telegram instance; a short
       \* webhook token
       JDict(<< << Platform("mattermost"),
                   JDict(<< << <<"a">>, MattermostBlock >> >>) >>,
                << Platform("rocketchat"),
                   JDict(<< << <<"b">>,
                               JDict(<< <<F_send_method, JStr(V_webhook)>>,
                                        <<F_webhook_url, JStr(UrlB)>>,
                                        <<F_webhook_token, JStr(ShortSecret)>>,
                                        <<F_listen_port, JNum(8093)>> >>) >> >>) >>,
                << Platform("telegram"),
                   JDict(<< << <<"a">>,
                               JDict(<< <<F_bot_token, JStr(Secret8)>> >>) >> >>) >> >>),
       \* the Telegram block has a field its schema does not declare
       JDict(<< << Platform("mattermost"), JDict(<< << <<"c">>, MattermostBlock >> >>) >>,
                << Platform("rocketchat"),
                   JDict(<< << <<"b">>,
                               JDict(<< <<F_send_method, JStr(V_webhook)>>,
                                        <<F_webhook_url, JStr(UrlB)>> >>) >> >>) >>,
                << Platform("telegram"),
                   JDict(<< << <<"a">>,
                               JDict(<< <<F_bot_token, JStr(TokenA)>>,
                                        <<F_bogus, JStr(<<"1">>)>> >>) >> >>) >> >>),
       \* the Rocket.Chat block sends by the API (the default) and gives no
       \* server_url, auth_token or user_id
       JDict(<< << Platform("mattermost"), JDict(<< << <<"c">>, MattermostBlock >> >>) >>,
                << Platform("rocketchat"),
                   JDict(<< << <<"b">>,
                               JDict(<< <<F_webhook_url, JStr(UrlB)>> >>) >> >>) >>,
                << Platform("telegram"),
                   JDict(<< << <<"a">>,
                               JDict(<< <<F_bot_token, JStr(TokenA)>> >>) >> >>) >> >>) >>

\* _REGISTRY once main._load_all_drivers has imported the driver modules.
DriverEntry(p) == [config_cls |-> <<p, "Config">>, driver_cls |-> <<p, "Driver">>]

Imported == [n \in 1..Len(Registry) |-> <<Registry[n], DriverEntry(Registry[n])>>]

\* A driver task after the first step of start(): WebhookDriver.start has
\* returned; MattermostDriver.start awaits its login request; the others serve
\* until cancelled.
NewTask(t) ==
    [ st |-> IF t.platform = "webhook" THEN "returned"
             ELSE IF t.platform = "mattermost" THEN "login"
             ELSE "serving",
      starts |-> 1,       \* how often start() was entered
      attempts |-> 0,     \* connection attempts made
      was |-> "none" ]    \* history: where the task was when it was cancelled

\* No fetch_attachment call is under way.
NoFetch == [pc |-> "idle"]

\* MessageDB after _init_db on a new data directory: the table
\* message_mappings with no row, nothing saved, no query answered.
EmptyDB == [rows |-> {}, saved |-> << >>, q |-> [op |-> "none"]]

(***************************************************************************)
(* Actions.                                                                *)
(***************************************************************************)
Init ==
    /\ db = EmptyDB
    /\ phase = "init"
    /\ rules = << >>
    /\ senders = EmptyDict
    /\ sensitive = {}
    /\ config = JDict(<< >>)
    /\ started = << >>
    /\ calls = << >>
    /\ sent = << >>
    /\ tasks = << >>
    /\ log = << >>
    /\ registry = Imported
    /\ fetch = NoFetch

\* Bridge.load_rules, called by main()
LoadRules(tbl) ==
    /\ phase = "init"
    /\ rules' = [i \in DOMAIN tbl |-> RulePool[tbl[i]]]
    /\ phase' = "rules"
    /\ UNCHANGED <<senders, sensitive, config, started, calls, sent>>
    /\ UNCHANGED <<tasks, log, registry, fetch, db>>

\* main(): raw = load_config(...); bridge.load_sensitive_values(raw)
LoadSensitiveValues(cfg) ==
    /\ phase = "rules"
    /\ config' = cfg
    /\ sensitive' = _collect_sensitive(cfg)
    /\ phase' = "config"
    /\ UNCHANGED <<rules, senders, started, calls, sent>>
    /\ UNCHANGED <<tasks, log, registry, fetch, db>>

\* A mutant of register_sender: a callback already installed is kept.
register_sender_keep(tbl, instance_id, send_func) ==
    [k \in (DOMAIN tbl) \cup {instance_id} |->
        IF k \in DOMAIN tbl THEN tbl[k] ELSE send_func]

\* Bridge.register_sender
register_sender(tbl, instance_id, send_func) ==
    [k \in (DOMAIN tbl) \cup {instance_id} |->
        IF k = instance_id THEN send_func ELSE tbl[k]]

\* A registration while a call is under way changes the table under it.
Unsettle(cs) ==
    [k \in DOMAIN cs |->
        IF cs[k].st \in {"pending", "sending"}
        THEN [cs[k] EXCEPT !.stable = FALSE] ELSE cs[k]]

\* main(), lines 74-108: the validation loop; main returns when a block was
\* rejected or there is no driver to run, else it creates the driver tasks.
ValidateConfig ==
    /\ phase = "config"
    /\ phase' = IF config_ok(config) /\ DriverTasks(config) # << >>
                 THEN "spawn" ELSE "exit"
    /\ UNCHANGED <<rules, senders, sensitive, config, started, calls, sent>>
    /\ UNCHANGED <<tasks, log, registry, fetch, db>>

\* The first step of each driver task's start(), in the order of creation
StartDriver(t) ==
    /\ phase = "spawn"
    /\ Len(started) < Len(DriverTasks(config))
    /\ t = DriverTasks(config)[Len(started) + 1]
    /\ started' = Append(started, t)
    /\ senders' = IF t.platform \in RegistersAtStart
                  THEN register_sender(senders, t.instance_id, SendOf(t))
                  ELSE senders
    /\ phase' = IF Len(started') = Len(DriverTasks(config))
                 THEN "running" ELSE "spawn"
    /\ UNCHANGED <<rules, sensitive, config, calls, sent>>
    /\ tasks' = Append(tasks, NewTask(t))
    /\ UNCHANGED <<log, registry, fetch, db>>

\* The targets a call skipped because `instance_id` had no sender.
SkippedFor(cs, rs, instance_id) ==
    { x \in [k : DOMAIN cs, ri : DOMAIN rs, ti : 1..MaxOrder] :
        /\ x.ti \in DOMAIN Targets(rs[x.ri])
        /\ Targets(rs[x.ri])[x.ti][1] = instance_id
        /\ \E n \in DOMAIN cs[x.k].trace :
              cs[x.k].trace[n] = Ev(x.ri, x.ti, "nosender") }

\* A mutant of RegisterLate: a message that was skipped for the instance is
\* handed to the sender when it registers.
RegisterLate_flush(t) ==
    /\ phase = "running"
    /\ \E n \in DOMAIN started : started[n] = t
    /\ \E n \in DOMAIN started : started[n] = t /\ tasks[n].st = "login"
    /\ senders' = register_sender(senders, t.instance_id, SendOf(t))
    /\ calls' = Unsettle(calls)
    /\ sent' = LET q == SkippedFor(calls, rules, t.instance_id)
               IN  IF q = {} THEN sent
                   ELSE LET x == CHOOSE y \in q : TRUE
                        IN  Append(sent,
                              [ mid |-> x.k, ri |-> x.ri, ti |-> x.ti,
                                target |-> t.instance_id,
                                channel |-> Targets(rules[x.ri])[x.ti][2],
                                text |-> calls[x.k].msg.text,
                                extra |-> EmptyDict,
                                attachments |-> calls[x.k].msg.attachments,
                                fn |-> SendOf(t) ])
    /\ UNCHANGED <<phase, rules, sensitive, config, started>>
    /\ tasks' = [n \in DOMAIN tasks |->
                   IF started[n] = t THEN [tasks[n] EXCEPT !.st = "connecting"]
                   ELSE tasks[n]]
    /\ UNCHANGED <<log, registry, fetch, db>>

\* MattermostDriver.start, line 89: the login request is over
RegisterLate(t) ==
    /\ phase = "running"
    /\ \E n \in DOMAIN started : started[n] = t
    /\ \E n \in DOMAIN started : started[n] = t /\ tasks[n].st = "login"
    /\ senders' = register_sender(senders, t.instance_id, SendOf(t))
    /\ calls' = Unsettle(calls)
    /\ UNCHANGED <<phase, rules, sensitive, config, started, sent>>
    /\ tasks' = [n \in DOMAIN tasks |->
                   IF started[n] = t THEN [tasks[n] EXCEPT !.st = "connecting"]
                   ELSE tasks[n]]
    /\ UNCHANGED <<log, registry, fetch, db>>

\* The invocation a call that has just run is suspended in, if any.
Emitted(c) == IF c.st = "sending" THEN c.inv ELSE << >>

\* The started driver task a message comes from.
FromDriver(t, m) ==
    /\ \E n \in DOMAIN started : started[n] = t
    /\ m.instance_id = t.instance_id
    /\ m.platform = Platform(t.platform)

\* TelegramDriver._on_message: await self.bridge.on_message(normalized).  The
\* driver handles its next update only when the call has returned.
ReceiveAwait(m) ==
    /\ phase = "running"
    /\ Len(calls) < MaxMsgs
    /\ \E t \in TaskPool : FromDriver(t, m) /\ t.platform \notin SpawnsTask
    /\ \A k \in DOMAIN calls :
          ( calls[k].msg.instance_id = m.instance_id
            /\ calls[k].msg.platform = m.platform ) => calls[k].st # "sending"
    /\ LET c == Run(NewCall(Len(calls) + 1, m, "run"), senders)
       IN  /\ calls' = Append(calls, c)
           /\ sent' = sent \o Emitted(c)
    /\ UNCHANGED <<phase, rules, senders, sensitive, config, started>>
    /\ UNCHANGED <<tasks, log, registry, fetch, db>>

\* RocketChatDriver._handle_webhook: asyncio.create_task(on_message(msg))
ReceiveSpawn(m) ==
    /\ phase = "running"
    /\ Len(calls) < MaxMsgs
    /\ \E t \in TaskPool : FromDriver(t, m) /\ t.platform \in SpawnsTask
    /\ calls' = Append(calls, NewCall(Len(calls) + 1, m, "pending"))
    /\ UNCHANGED <<phase, rules, senders, sensitive, config, started, sent>>
    /\ UNCHANGED <<tasks, log, registry, fetch, db>>

\* The event loop runs a created task's first step; tasks start in the order
\* they were created.
TaskStart(k) ==
    /\ k \in DOMAIN calls
    /\ calls[k].st = "pending"
    /\ \A j \in DOMAIN calls : j < k => calls[j].st # "pending"
    /\ LET c == Run([calls[k] EXCEPT !.st = "run", !.snd = senders,
                                      !.stable = TRUE], senders)
       IN  /\ calls' = [calls EXCEPT ![k] = c]
           /\ sent' = sent \o Emitted(c)
    /\ UNCHANGED <<phase, rules, senders, sensitive, config, started>>
    /\ UNCHANGED <<tasks, log, registry, fetch, db>>

\* A mutant of Frame: formatted and extra are kept in one place shared by all
\* calls, so a resumed call finds those of the call that came last.
FrameShared(k) == [calls[k] EXCEPT !.bf = calls[Len(calls)].bf]

\* The frame a call resumes with: msg, rule, formatted and extra are locals of
\* on_message and _dispatch, one set per call.
Frame(k) == calls[k]

\* A sender returns or raises; the call resumes and runs to its next suspension.
SenderReturns(k, outcome) ==
    /\ k \in DOMAIN calls
    /\ calls[k].st = "sending"
    /\ LET c == Run(_after_sender(Frame(k), outcome), senders)
       IN  /\ calls' = [calls EXCEPT ![k] = c]
           /\ sent' = sent \o Emitted(c)
    /\ UNCHANGED <<phase, rules, senders, sensitive, config, started>>
    /\ UNCHANGED <<tasks, log, registry, fetch, db>>

Next ==
    \/ \E tbl \in RuleTables : LoadRules(tbl)
    \/ \E n \in 1..Len(ConfigPool) : LoadSensitiveValues(ConfigPool[n])
    \/ ValidateConfig
    \/ \E t \in TaskPool : StartDriver(t)
    \/ \E t \in TaskPool : RegisterLate(t)
    \/ \E n \in 1..Len(MsgPool) : ReceiveAwait(MsgPool[n])
    \/ \E n \in 1..Len(MsgPool) : ReceiveSpawn(MsgPool[n])
    \/ \E k \in 1..MaxMsgs : TaskStart(k)
    \/ \E k \in 1..MaxMsgs, outcome \in {"ok", "raise"} : SenderReturns(k, outcome)

Spec == Init /\ [][Next]_vars

TypeOK ==
    /\ phase \in {"init", "rules", "config", "spawn", "running", "exit",
                  "finished", "shutdown", "stopped"}
    /\ Len(calls) <= MaxMsgs

(***************************************************************************)
(* What the claims speak of.                                               *)
(***************************************************************************)
Finished(c) == c.st \in {"done", "aborted"}

SentOf(k) == SelectSeq(sent, LAMBDA s : s.mid = k)

Count(k, ri, ti) ==
    Cardinality({ n \in DOMAIN sent :
                    sent[n].mid = k /\ sent[n].ri = ri /\ sent[n].ti = ti })

HasEvent(c, ri, ti, kinds) ==
    \E n \in DOMAIN c.trace :
        c.trace[n].ri = ri /\ c.trace[n].ti = ti /\ c.trace[n].kind \in kinds

IsPrefix(p, q) == Len(p) <= Len(q) /\ SubSeq(q, 1, Len(p)) = p

HasSecret(text) == \E s \in sensitive : Contains(s, text)

\* The address and the msg block of target ti of a rule, as the rule states them.
TargetId(rule, ti) == Targets(rule)[ti][1]

TargetAddress(rule, ti) ==
    LET cfg == Targets(rule)[ti][2]
    IN  IF rule.type = "connect"
        THEN [k \in (DOMAIN cfg) \ {"msg"} |-> cfg[k]] ELSE cfg

TargetMsgCfg(rule, ti) ==
    LET cfg == Targets(rule)[ti][2]
    IN  IF rule.type = "connect" /\ "msg" \in DOMAIN cfg
        THEN Merge(rule.msg, cfg["msg"]) ELSE rule.msg

\* The rule's source side accepts the message: the instance is listed and every
\* listed key (but the reserved msg) has the message's value, as strings.
SourceAccepts(msg, rule) ==
    LET side == IF rule.type = "connect" THEN rule.channels ELSE rule.from
    IN  /\ \E n \in DOMAIN side : side[n][1] = msg.instance_id
        /\ \A n \in DOMAIN side :
              side[n][1] = msg.instance_id =>
                 \A key \in (DOMAIN side[n][2]) \ (IF rule.type = "connect"
                                                   THEN {"msg"} ELSE {}) :
                    /\ key \in DOMAIN msg.channel
                    /\ msg.channel[key].rep = side[n][2][key].rep

\* Target ti of the rule is one the call must reach a sender for: not the echo
\* target, with a formatted text free of sensitive values, with a sender in the
\* table the call ran against, and with extra fields the call can pass.
Deliverable(c, rule, ti) ==
    LET bf == _build_formatted(c.msg, TargetMsgCfg(rule, ti))
    IN  /\ ~(TargetId(rule, ti) = c.msg.instance_id
              /\ TargetAddress(rule, ti) = c.msg.channel)
        /\ bf.exc = "none"
        /\ ~HasSecret(bf.formatted)
        /\ TargetId(rule, ti) \in DOMAIN c.snd
        /\ "attachments" \notin DOMAIN bf.extra

(***************************************************************************)
(* C1: no sender invocation made while handling a message goes to the      *)
(* message's own instance with a channel that the router's source matching *)
(* accepts for the message's channel (every listed key equal as strings).  *)
(***************************************************************************)
C1_NoSelfEcho ==
    \A n \in DOMAIN sent :
        LET m == calls[sent[n].mid].msg
        IN  ~ /\ sent[n].target = m.instance_id
              /\ \A key \in DOMAIN sent[n].channel :
                    GetOrEmpty(m.channel, key).rep = sent[n].channel[key].rep

(***************************************************************************)
(* C2: two messages handed to on_message in order from the same            *)
(* (instance_id, channel) reach every target of every rule in that order:  *)
(* no target's sender is invoked for the later message before it is        *)
(* invoked, under the same rule, for the earlier one.                      *)
(***************************************************************************)
C2_PerChannelOrder ==
    \A i, j \in DOMAIN sent :
        ( /\ i < j
          /\ sent[i].target = sent[j].target
          /\ sent[i].ri = sent[j].ri /\ sent[i].ti = sent[j].ti
          /\ calls[sent[i].mid].msg.instance_id = calls[sent[j].mid].msg.instance_id
          /\ calls[sent[i].mid].msg.channel = calls[sent[j].mid].msg.channel )
        => sent[i].mid <= sent[j].mid

(***************************************************************************)
(* C3: a text that contains a member of the sensitive index is never       *)
(* handed to a sender, and a target whose formatted text contains one gets *)
(* no sender invocation for that rule and message.                         *)
(***************************************************************************)
C3_SensitiveGuard ==
    /\ \A n \in DOMAIN sent : ~HasSecret(sent[n].text)
    /\ \A k \in DOMAIN calls : \A ri \in DOMAIN rules :
          \A ti \in DOMAIN Targets(rules[ri]) :
             LET bf == _build_formatted(calls[k].msg, TargetMsgCfg(rules[ri], ti))
             IN  (bf.exc = "none" /\ HasSecret(bf.formatted))
                    => Count(k, ri, ti) = 0

\* A call found a target's text sensitive, skipped it and returned.
C3_Witness ==
    \E k \in DOMAIN calls :
        /\ calls[k].st = "done"
        /\ \E n \in DOMAIN calls[k].trace : calls[k].trace[n].kind = "blocked"
        /\ HasSecret(calls[k].msg.text)

(***************************************************************************)
(* C4: once a call has handled a matching rule, every target of the rule   *)
(* that is not the echo target, whose text is free of sensitive values and *)
(* that has a registered sender has had exactly one sender invocation.     *)
(***************************************************************************)
C4_FanOutComplete ==
    \A k \in DOMAIN calls :
        (Finished(calls[k]) /\ calls[k].stable) =>
            \A ri \in DOMAIN rules :
                HasEvent(calls[k], ri, 0, {"dispatch"}) =>
                    \A ti \in DOMAIN Targets(rules[ri]) :
                        Deliverable(calls[k], rules[ri], ti)
                            => Count(k, ri, ti) = 1

(***************************************************************************)
(* C5: an exception raised by a sender never leaves on_message: after it   *)
(* the call goes on (to the next target, the next rule) or has returned    *)
(* normally, and a call that ended by an exception ended by one that the   *)
(* router itself raised.                                                   *)
(***************************************************************************)
C5_SenderExceptionCaught ==
    \A k \in DOMAIN calls :
        LET t == calls[k].trace
        IN  /\ calls[k].exc # "SenderError"
            /\ \A n \in DOMAIN t :
                  t[n].kind = "failed" =>
                     IF n = Len(t) THEN calls[k].st = "done"
                     ELSE \/ t[n + 1].ri > t[n].ri
                          \/ t[n + 1].ri = t[n].ri /\ t[n + 1].ti > t[n].ti

\* A sender raised, the call went on to invoke a later target and returned.
C5_Witness ==
    \E k \in DOMAIN calls :
        LET t == calls[k].trace
        IN  /\ calls[k].st = "done"
            /\ \E n \in DOMAIN t :
                  /\ n > 1 /\ n < Len(t)
                  /\ t[n].kind = "failed"
                  /\ t[n - 1].kind = "invoke"
                  /\ \E q \in DOMAIN t : q > n /\ t[q].kind = "sent"

RECURSIVE AloneFrom(_, _, _)
\* The invocations of a call run by itself against the table sndrs, and how
\* it ends.
AloneFrom(c, sndrs, acc) ==
    LET r == Run(c, sndrs)
    IN  IF r.st = "sending"
        THEN AloneFrom(_after_sender(r, "ok"), sndrs, acc \o r.inv)
        ELSE [final |-> r.st, invs |-> acc]

Alone(k) == AloneFrom(NewCall(k, calls[k].msg, "run"), calls[k].snd, << >>)

(***************************************************************************)
(* C6: whatever other calls are under way, the sender invocations a call   *)
(* has made are those it makes when run alone against the same sender      *)
(* table: the same targets, channels, texts, extra fields and attachments, *)
(* none lost, none added.                                                  *)
(***************************************************************************)
C6_CallsIndependent ==
    \A k \in DOMAIN calls :
        (calls[k].stable /\ calls[k].st # "pending") =>
            IF Finished(calls[k])
            THEN SentOf(k) = Alone(k).invs /\ calls[k].st = Alone(k).final
            ELSE IsPrefix(SentOf(k), Alone(k).invs)

\* Two calls for different messages are both suspended in a sender, each
\* having made an invocation.
C6_Witness ==
    \E k, j \in DOMAIN calls :
        /\ k # j
        /\ calls[k].st = "sending" /\ calls[j].st = "sending"
        /\ calls[k].stable /\ calls[j].stable
        /\ calls[k].msg # calls[j].msg
        /\ Len(SentOf(k)) >= 2

(***************************************************************************)
(* C7: after load_sensitive_values every member of the sensitive index has *)
(* at least 8 characters, and no target is blocked for a shorter value.    *)
(***************************************************************************)
C7_MinLength ==
    /\ \A s \in sensitive : Len(s) >= 8
    /\ \A k \in DOMAIN calls : \A ri \in DOMAIN rules :
          \A ti \in DOMAIN Targets(rules[ri]) :
             HasEvent(calls[k], ri, ti, {"blocked"}) =>
                \E s \in sensitive :
                   /\ Len(s) >= 8
                   /\ Contains(s, _build_formatted(calls[k].msg,
                                     TargetMsgCfg(rules[ri], ti)).formatted)

(***************************************************************************)
(* C9: a finished call has dispatched every rule that accepts the message, *)
(* each on its own: a target gets one invocation for each such rule that   *)
(* names it, and the invocations of an earlier rule come before those of   *)
(* a later rule.                                                           *)
(***************************************************************************)
C9_EveryMatchingRuleDispatches ==
    /\ \A i, j \in DOMAIN sent :
          (i < j /\ sent[i].mid = sent[j].mid) => sent[i].ri <= sent[j].ri
    /\ \A k \in DOMAIN calls :
          (Finished(calls[k]) /\ calls[k].stable) =>
              \A ri \in DOMAIN rules :
                  SourceAccepts(calls[k].msg, rules[ri]) =>
                      /\ HasEvent(calls[k], ri, 0, {"dispatch"})
                      /\ \A ti \in DOMAIN Targets(rules[ri]) :
                            Deliverable(calls[k], rules[ri], ti)
                                => Count(k, ri, ti) = 1

(***************************************************************************)
(* C10: a finished call has dispatched a forward rule to every entry of    *)
(* `to` exactly when msg.instance_id is a key of `from` and msg.channel    *)
(* has every key listed there with an equal value, as strings.             *)
(***************************************************************************)
C10_ForwardMatching ==
    \A k \in DOMAIN calls :
        Finished(calls[k]) =>
            \A ri \in DOMAIN rules :
                rules[ri].type # "connect" =>
                    ( ( /\ HasEvent(calls[k], ri, 0, {"dispatch"})
                        /\ \A ti \in DOMAIN rules[ri].to :
                              HasEvent(calls[k], ri, ti,
                                  {"echo", "blocked", "nosender", "failed", "invoke"}) )
                      <=> SourceAccepts(calls[k].msg, rules[ri]) )

(***************************************************************************)
(* C11: under a connect rule a message that an entry of `channels` accepts *)
(* is sent to every other entry of `channels` (one whose text is free of   *)
(* sensitive values and that has a sender), every send of the rule goes to *)
(* an entry of `channels` with an address that has no key msg, and a       *)
(* message that no entry accepts causes no send by the rule.               *)
(***************************************************************************)
C11_ConnectSymmetric ==
    /\ \A n \in DOMAIN sent :
          rules[sent[n].ri].type = "connect" =>
              /\ SourceAccepts(calls[sent[n].mid].msg, rules[sent[n].ri])
              /\ sent[n].target \in DictKeys(rules[sent[n].ri].channels)
              /\ "msg" \notin DOMAIN sent[n].channel
    /\ \A k \in DOMAIN calls :
          (Finished(calls[k]) /\ calls[k].stable) =>
              \A ri \in DOMAIN rules :
                  ( /\ rules[ri].type = "connect"
                    /\ SourceAccepts(calls[k].msg, rules[ri]) ) =>
                      \A ti \in DOMAIN rules[ri].channels :
                          ( /\ TargetId(rules[ri], ti) # calls[k].msg.instance_id
                            /\ Deliverable(calls[k], rules[ri], ti) )
                              => Count(k, ri, ti) = 1

\* The channel-local msg block of entry ti of a connect rule ({} when absent).
LocalMsg(rule, ti) ==
    IF "msg" \in DOMAIN rule.channels[ti][2]
    THEN rule.channels[ti][2]["msg"] ELSE EmptyDict

\* The value the claim gives key k of the effective block.
Overlaid(rule, ti, k) ==
    IF k \in DOMAIN LocalMsg(rule, ti) THEN LocalMsg(rule, ti)[k] ELSE rule.msg[k]

(***************************************************************************)
(* C12: what a sender gets under a connect rule is built from the rule's   *)
(* msg block overlaid with the entry's own: the extra fields are the keys  *)
(* of either block, each from the entry's value when the entry has the key *)
(* and from the rule's otherwise, and the text comes from the entry's      *)
(* msg_format when it has one, else the rule's, else the default.          *)
(***************************************************************************)
C12_ConnectMerge ==
    \A n \in DOMAIN sent :
        LET rule == rules[sent[n].ri]
            ti   == sent[n].ti
            msg  == calls[sent[n].mid].msg
            keys == (DOMAIN rule.msg) \cup (DOMAIN LocalMsg(rule, ti))
        IN  rule.type = "connect" =>
              /\ DOMAIN sent[n].extra = keys \ {"msg_format"}
              /\ \A k \in keys \ {"msg_format"} :
                    sent[n].extra[k] = ExtraValue(Overlaid(rule, ti, k), Ctx(msg))
              /\ sent[n].text =
                    IF "msg_format" \in keys
                    THEN _build_formatted(msg,
                            "msg_format" :> Overlaid(rule, ti, "msg_format")).formatted
                    ELSE msg.text

\* A sender was invoked for an entry whose own block shares a key with the
\* rule's block, adds a key and leaves a key of the rule's block alone.
C12_Witness ==
    \E n \in DOMAIN sent :
        LET rule == rules[sent[n].ri]
            l    == LocalMsg(rule, sent[n].ti)
        IN  /\ rule.type = "connect"
            /\ "msg_format" \in (DOMAIN l) \cap (DOMAIN rule.msg)
            /\ l["msg_format"] # rule.msg["msg_format"]
            /\ \E k \in (DOMAIN l) \cap (DOMAIN rule.msg) :
                  k # "msg_format" /\ l[k] # rule.msg[k]
            /\ (DOMAIN l) \ (DOMAIN rule.msg) # {}
            /\ (DOMAIN rule.msg) \ (DOMAIN l) # {}

(***************************************************************************)
(* load_sensitive_values by itself, over generated configs: one instance   *)
(* block with two entries, each a key and a value from the pools below,    *)
(* plain or nested under lists and dicts.                                  *)
(***************************************************************************)
SensKey(n) ==
    CASE n = 1 -> <<"t","o","k","e","n">>
      [] n = 2 -> <<"B","o","t","_","T","o","k","e","n">>
      [] n = 3 -> <<"P","A","S","S","W","O","R","D">>
      [] n = 4 -> <<"w","e","b","h","o","o","k","_","u","r","l">>
      [] OTHER -> <<"n","a","m","e">>

SensValue(n) ==
    CASE n = 1 -> JStr(Secret8)
      [] n = 2 -> JStr(ShortSecret)
      [] n = 3 -> JStr(<< >>)
      [] OTHER -> JNum(8093)

OuterKey(n) ==
    IF n = 1 THEN <<"s","e","c","r","e","t","s">> ELSE <<"o","p","t","s">>

RECURSIVE Nested(_, _, _)
\* The entry under n levels of containers: a list of a number and a dict, or a
\* dict, under the key outer.
Nested(entry, outer, n) ==
    IF n = 0 THEN entry
    ELSE << outer,
            IF n % 2 = 1
            THEN JList(<< JNum(1), JDict(<< Nested(entry, outer, n - 1) >>) >>)
            ELSE JDict(<< Nested(entry, outer, n - 1) >>) >>

GenConfig(e1, e2) ==
    JDict(<< << Platform("telegram"),
                JDict(<< << <<"a">>, JDict(<< e1, e2 >>) >> >>) >> >>)

InitSens ==
    /\ db = EmptyDB
    /\ phase = "rules"
    /\ rules = << >>
    /\ senders = EmptyDict
    /\ sensitive = {}
    /\ started = << >>
    /\ calls = << >>
    /\ sent = << >>
    /\ log = << >>
    /\ registry = Imported
    /\ fetch = NoFetch
    /\ tasks = << >>
    /\ \E k1, k2 \in 1..5, v1, v2 \in 1..4, n1, n2 \in 0..MaxNest, o1, o2 \in 1..2 :
          LET e1 == Nested(<<SensKey(k1), SensValue(v1)>>, OuterKey(o1), n1)
              e2 == Nested(<<SensKey(k2), SensValue(v2)>>, OuterKey(o2), n2)
          IN  e1[1] # e2[1] /\ config = GenConfig(e1, e2)

NextSens == LoadSensitiveValues(config)

SpecSens == InitSens /\ [][NextSens]_vars

RECURSIVE Entries(_)
RECURSIVE EntriesOfItems(_, _, _)
\* Every <<key, value>> of every dict of the config, at any depth.
Entries(obj) ==
    IF obj.ty \in {"dict", "list"}
    THEN EntriesOfItems(obj.items, 1, obj.ty = "dict") ELSE << >>

EntriesOfItems(items, i, keyed) ==
    IF i > Len(items) THEN << >>
    ELSE IF keyed
    THEN <<items[i]>> \o Entries(items[i][2]) \o EntriesOfItems(items, i + 1, keyed)
    ELSE Entries(items[i]) \o EntriesOfItems(items, i + 1, keyed)

KeyNamesCredential(k) ==
    \E p \in _SENSITIVE_KEY_PATTERNS : Contains(p, Lower(k))

Loaded == phase = "config"

(***************************************************************************)
(* C8 (as stated): after load_sensitive_values the index holds exactly the *)
(* values of the string-valued entries, at any depth, whose lower-cased    *)
(* key contains token, secret, password or webhook_url.                    *)
(***************************************************************************)
C8_EveryStringEntry ==
    Loaded =>
        sensitive =
            { Entries(config)[i][2].s :
                i \in { j \in DOMAIN Entries(config) :
                          /\ Entries(config)[j][2].ty = "str"
                          /\ KeyNamesCredential(Entries(config)[j][1]) } }

(***************************************************************************)
(* C8 (amended): after load_sensitive_values the index holds exactly the   *)
(* values of the non-empty string-valued entries, at any depth, whose      *)
(* lower-cased key contains token, secret, password or webhook_url.        *)
(***************************************************************************)
C8_EveryNonEmptyStringEntry ==
    Loaded =>
        sensitive =
            { Entries(config)[i][2].s :
                i \in { j \in DOMAIN Entries(config) :
                          /\ Entries(config)[j][2].ty = "str"
                          /\ Entries(config)[j][2].s # << >>
                          /\ KeyNamesCredential(Entries(config)[j][1]) } }

\* A loaded config with a credential under an upper-case key inside a list, and
\* a string under a key that names no credential, which stays out of the index.
C8_Witness ==
    /\ Loaded
    /\ Len(Entries(config)) >= 6
    /\ \E j \in DOMAIN Entries(config) :
          /\ Entries(config)[j][1] = SensKey(3)
          /\ Entries(config)[j][2].ty = "str"
          /\ Entries(config)[j][2].s \in sensitive
    /\ \E j \in DOMAIN Entries(config) :
          /\ Entries(config)[j][1] = SensKey(5)
          /\ Entries(config)[j][2].ty = "str"
          /\ Entries(config)[j][2].s # << >>
          /\ Entries(config)[j][2].s \notin sensitive


(***************************************************************************)
(* _build_formatted and the send by themselves: one forward rule a/1 -> b  *)
(* whose msg block is generated, a msg_format of up to MaxFmt fields and   *)
(* literals (or none) and one extra key, and messages of a/1 whose text    *)
(* may hold braces.                                                        *)
(***************************************************************************)
FmtTokens ==
    << "{platform}", "{from}", "{username}", "{user_id}", "{user_avatar}",
       "{msg}", "{nick}", "{0}", "{", "{{", "}}", "x" >>

FmtPool == UNION { [1..n -> 1..Len(FmtTokens)] : n \in 0..MaxFmt }

ExtraPool ==
    << EmptyDict,
       ("custom" :> MStr(<<"{from}", "x">>)),
       ("custom" :> MStr(<<"{nick}", "{msg}">>)),
       ("custom" :> MNum(7)),
       ("custom" :> MStr(<<"{0}">>)),
       ("attachments" :> MStr(<<"x">>)) >>

FmtMsgPool ==
    << Msg("telegram", "a", "chat_id", "1", TextHi, << >>),
       [ Msg("telegram", "a", "chat_id", "1", <<"{", "0", "}">>, <<"img">>)
           EXCEPT !.user_avatar = <<"u">> ] >>

FmtRule(msg_cfg) ==
    Rule("forward",
         << <<"a", ("chat_id" :> AStr("1"))>> >>,
         << <<"b", ("room_id" :> AStr("1"))>> >>,
         << >>,
         msg_cfg)

InitFmt ==
    /\ db = EmptyDB
    /\ phase = "running"
    /\ config = ConfigPool[1]
    /\ sensitive = _collect_sensitive(config)
    /\ started = DriverTasks(config)
    /\ senders = register_sender(
                    register_sender(EmptyDict, "b", SendOf(Task("rocketchat", "b"))),
                    "a", SendOf(Task("telegram", "a")))
    /\ calls = << >>
    /\ sent = << >>
    /\ log = << >>
    /\ registry = Imported
    /\ fetch = NoFetch
    /\ tasks = [n \in DOMAIN started |-> NewTask(started[n])]
    /\ \E f \in FmtPool, e \in 1..Len(ExtraPool), given \in BOOLEAN :
          /\ (~given) => f = << >>
          /\ rules = << FmtRule(
                IF given
                THEN ("msg_format" :> MStr([i \in DOMAIN f |-> FmtTokens[f[i]]]))
                       @@ ExtraPool[e]
                ELSE ExtraPool[e]) >>

NextFmt ==
    \/ \E n \in 1..Len(FmtMsgPool) : ReceiveAwait(FmtMsgPool[n])
    \/ \E k \in 1..MaxMsgs, outcome \in {"ok", "raise"} : SenderReturns(k, outcome)

SpecFmt == InitFmt /\ [][NextFmt]_vars

Recognised ==
    { "{platform}", "{from}", "{username}", "{user_id}", "{user_avatar}", "{msg}" }

\* The field of the message a recognised placeholder stands for.
FieldOf(tok, msg) ==
    CASE tok = "{platform}" -> msg.platform
      [] tok = "{from}" -> <<msg.instance_id>>
      [] tok = "{username}" -> msg.user
      [] tok = "{user_id}" -> msg.user_id
      [] tok = "{user_avatar}" -> msg.user_avatar
      [] OTHER -> msg.text

\* The characters a piece of a format string is written with.
Chars(tok) ==
    CASE tok = "{{" -> <<"{", "{">>
      [] tok = "}}" -> <<"}", "}">>
      [] OTHER -> <<tok>>

RECURSIVE Replaced(_, _, _)
\* The format with each recognised placeholder replaced by its field and
\* everything else left as written.
Replaced(fmt, i, msg) ==
    IF i > Len(fmt) THEN << >>
    ELSE (IF fmt[i] \in Recognised THEN FieldOf(fmt[i], msg) ELSE Chars(fmt[i]))
            \o Replaced(fmt, i + 1, msg)

RECURSIVE Expanded(_, _, _)
\* The same, with a doubled brace written out as a single one.
Expanded(fmt, i, msg) ==
    IF i > Len(fmt) THEN << >>
    ELSE (IF fmt[i] \in Recognised THEN FieldOf(fmt[i], msg)
          ELSE IF fmt[i] = "{{" THEN <<"{">>
          ELSE IF fmt[i] = "}}" THEN <<"}">>
          ELSE <<fmt[i]>>)
            \o Expanded(fmt, i + 1, msg)

\* The msg_format in force for an invocation: the rule's (for a connect rule
\* the entry's over the rule's), or the default.
FormatOf(rule, ti) ==
    IF "msg_format" \in DOMAIN TargetMsgCfg(rule, ti)
    THEN TargetMsgCfg(rule, ti)["msg_format"].s ELSE <<"{msg}">>

\* Every brace field of the format is one of the six recognised placeholders.
OnlyRecognised(fmt) ==
    \A i \in DOMAIN fmt :
        fmt[i] \notin (NamedFields \ Recognised) \cup {"{0}", "{", "}"}

(***************************************************************************)
(* C13 (as stated): the text handed to a sender is msg_format with each    *)
(* recognised placeholder replaced by the field of the message (the rest   *)
(* of the format as written), and without a msg_format it is msg.text.     *)
(***************************************************************************)
C13_PlaceholdersReplaced ==
    \A n \in DOMAIN sent :
        LET rule == rules[sent[n].ri]
            msg  == calls[sent[n].mid].msg
        IN  /\ OnlyRecognised(FormatOf(rule, sent[n].ti)) =>
                  sent[n].text = Replaced(FormatOf(rule, sent[n].ti), 1, msg)
            /\ "msg_format" \notin DOMAIN TargetMsgCfg(rule, sent[n].ti) =>
                  sent[n].text = msg.text

(***************************************************************************)
(* C13 (amended): the text handed to a sender is msg_format with each      *)
(* recognised placeholder replaced by the field of the message and each    *)
(* doubled brace by a single one, and without a msg_format it is msg.text, *)
(* whatever the text holds.                                                *)
(***************************************************************************)
C13_FormatExpanded ==
    \A n \in DOMAIN sent :
        LET rule == rules[sent[n].ri]
            msg  == calls[sent[n].mid].msg
        IN  /\ OnlyRecognised(FormatOf(rule, sent[n].ti)) =>
                  sent[n].text = Expanded(FormatOf(rule, sent[n].ti), 1, msg)
            /\ "msg_format" \notin DOMAIN TargetMsgCfg(rule, sent[n].ti) =>
                  sent[n].text = msg.text

\* A sender was invoked under a format that holds a recognised placeholder
\* and a doubled brace.
C13_Witness ==
    \E n \in DOMAIN sent :
        LET fmt == FormatOf(rules[sent[n].ri], sent[n].ti)
        IN  /\ "msg_format" \in DOMAIN TargetMsgCfg(rules[sent[n].ri], sent[n].ti)
            /\ OnlyRecognised(fmt)
            /\ \E i, j \in DOMAIN fmt :
                  fmt[i] \in Recognised /\ fmt[j] \in {"{{", "}}"}


\* The format holds a placeholder that is none of the six recognised ones.
HasUnknownPlaceholder(fmt) ==
    \E i \in DOMAIN fmt : fmt[i] \in (NamedFields \ Recognised) \cup {"{0}"}

\* The warnings about a format that a call logged for target ti of rule ri (a
\* forward rule formats once, before its targets; a connect rule per target).
FormatWarnings(c, ri, ti) ==
    Cardinality({ n \in DOMAIN c.trace :
                    /\ c.trace[n].kind = "warn_format"
                    /\ c.trace[n].ri = ri
                    /\ c.trace[n].ti \in {0, ti} })

(***************************************************************************)
(* C14: when the msg_format in force holds a placeholder that is none of   *)
(* the six recognised ones, a finished call has sent the target exactly    *)
(* msg.text, once, and logged one warning (the target being one that has a *)
(* sender, is not the source and whose extra fields expand and can be      *)
(* passed).                                                                *)
(***************************************************************************)
C14_UnknownKeyFallback ==
    \A k \in DOMAIN calls :
        (Finished(calls[k]) /\ calls[k].stable) =>
            \A ri \in DOMAIN rules :
                SourceAccepts(calls[k].msg, rules[ri]) =>
                    \A ti \in DOMAIN Targets(rules[ri]) :
                        ( /\ HasUnknownPlaceholder(FormatOf(rules[ri], ti))
                          /\ TargetId(rules[ri], ti) # calls[k].msg.instance_id
                          /\ TargetId(rules[ri], ti) \in DOMAIN calls[k].snd
                          /\ ~HasSecret(calls[k].msg.text)
                          /\ ExtraExc(TargetMsgCfg(rules[ri], ti), Ctx(calls[k].msg))
                                = "none"
                          /\ "attachments" \notin DOMAIN TargetMsgCfg(rules[ri], ti) )
                        => /\ Count(k, ri, ti) = 1
                           /\ \A n \in DOMAIN sent :
                                 ( sent[n].mid = k /\ sent[n].ri = ri
                                   /\ sent[n].ti = ti )
                                 => sent[n].text = calls[k].msg.text
                           /\ FormatWarnings(calls[k], ri, ti) = 1


(***************************************************************************)
(* C15: a finished call has handed every target (one that has a sender, is *)
(* not the source, whose text is clean and whose msg block expands without *)
(* an exception) one invocation whose extra fields are the keys of the msg *)
(* block in force but msg_format: a string value made of recognised        *)
(* placeholders and literals expanded for the message, a value that is no  *)
(* string as it is.                                                        *)
(***************************************************************************)
C15_ExtraPassThrough ==
    /\ \A n \in DOMAIN sent : "msg_format" \notin DOMAIN sent[n].extra
    /\ \A k \in DOMAIN calls :
          (Finished(calls[k]) /\ calls[k].stable) =>
              \A ri \in DOMAIN rules :
                  SourceAccepts(calls[k].msg, rules[ri]) =>
                      \A ti \in DOMAIN Targets(rules[ri]) :
                          LET cfg == TargetMsgCfg(rules[ri], ti)
                              bf  == _build_formatted(calls[k].msg, cfg)
                          IN  ( /\ TargetId(rules[ri], ti) # calls[k].msg.instance_id
                                /\ TargetId(rules[ri], ti) \in DOMAIN calls[k].snd
                                /\ bf.exc = "none"
                                /\ ~HasSecret(bf.formatted)
                                /\ \A tj \in 1..(ti - 1) :
                                      _build_formatted(calls[k].msg,
                                          TargetMsgCfg(rules[ri], tj)).exc = "none" )
                              => \E n \in DOMAIN sent :
                                    /\ sent[n].mid = k /\ sent[n].ri = ri
                                    /\ sent[n].ti = ti
                                    /\ DOMAIN sent[n].extra
                                          = (DOMAIN cfg) \ {"msg_format"}
                                    /\ \A key \in DOMAIN sent[n].extra :
                                          IF cfg[key].ty # "str"
                                          THEN sent[n].extra[key] = cfg[key]
                                          ELSE OnlyRecognised(cfg[key].s) =>
                                                 sent[n].extra[key] =
                                                   MStr(Expanded(cfg[key].s, 1,
                                                                 calls[k].msg))


(***************************************************************************)
(* C16: a registration installs the callback for its instance id, in place *)
(* of the one that was there, and every invocation made from then on for   *)
(* that id calls the callback the table holds at that moment, also by a    *)
(* call that was suspended in a sender while the registration ran.         *)
(***************************************************************************)
C16_RegisterReplaces ==
    [][ /\ \A t \in TaskPool :
              RegisterLate(t) =>
                  /\ t.instance_id \in DOMAIN senders'
                  /\ senders'[t.instance_id] = SendOf(t)
        /\ Len(sent') > Len(sent) =>
              /\ sent'[Len(sent')].target \in DOMAIN senders
              /\ sent'[Len(sent')].fn = senders[sent'[Len(sent')].target] ]_vars

\* A driver registered for an instance id that had a callback while a call was
\* suspended in a sender, and the call then invoked the new callback for that
\* id, not the one the table held when the call began.
C16_Witness ==
    \E i, j \in DOMAIN sent :
        /\ i < j
        /\ sent[i].mid = sent[j].mid
        /\ sent[j].target \in DOMAIN calls[sent[j].mid].snd
        /\ sent[j].fn # calls[sent[j].mid].snd[sent[j].target]
        /\ sent[j].fn = senders[sent[j].target]
        /\ ~calls[sent[j].mid].stable


\* The events of a call's trace of the given kinds.
Events(c, kinds) == SelectSeq(c.trace, LAMBDA e : e.kind \in kinds)

(***************************************************************************)
(* C17: within one on_message call a sender invocation is followed by      *)
(* nothing but its own completion (the sender returned or raised): no      *)
(* second invocation starts before, and the call has not returned or       *)
(* raised while an invocation of its own is under way.                     *)
(***************************************************************************)
C17_SynchronousDispatch ==
    \A k \in DOMAIN calls :
        LET t == calls[k].trace
        IN  /\ \A n \in DOMAIN t :
                  t[n].kind = "invoke" =>
                      IF n = Len(t) THEN calls[k].st = "sending"
                      ELSE /\ t[n + 1].kind \in {"sent", "failed"}
                           /\ t[n + 1].ri = t[n].ri /\ t[n + 1].ti = t[n].ti
            /\ calls[k].st = "sending" => (t # << >> /\ t[Len(t)].kind = "invoke")
            /\ Len(SentOf(k)) = Len(Events(calls[k], {"invoke"}))
            /\ Finished(calls[k]) =>
                  \A n \in DOMAIN sent :
                      sent[n].mid = k =>
                          HasEvent(calls[k], sent[n].ri, sent[n].ti, {"sent", "failed"})

\* A call has returned after two invocations, of which one raised.
C17_Witness ==
    \E k \in DOMAIN calls :
        /\ calls[k].st = "done"
        /\ Len(SentOf(k)) >= 2
        /\ Len(Events(calls[k], {"failed"})) >= 1
        /\ Len(Events(calls[k], {"sent"})) >= 1


\* A step of an on_message call: it begins, starts as a task, or resumes.
OnMessageStep ==
    \/ \E n \in 1..Len(MsgPool) : ReceiveAwait(MsgPool[n])
    \/ \E n \in 1..Len(MsgPool) : ReceiveSpawn(MsgPool[n])
    \/ \E k \in 1..MaxMsgs : TaskStart(k)
    \/ \E k \in 1..MaxMsgs, outcome \in {"ok", "raise"} : SenderReturns(k, outcome)

\* A step in which a driver registers its sender.
RegisterStep ==
    \/ \E t \in TaskPool : StartDriver(t)
    \/ \E t \in TaskPool : RegisterLate(t)

(***************************************************************************)
(* C18: a step of on_message leaves rules, senders and the sensitive index *)
(* as they are, and every invocation carries the attachment list of its    *)
(* message; a registration changes senders only, at the registered id      *)
(* only; once main() is past loading, rules and the sensitive index never  *)
(* change.                                                                 *)
(***************************************************************************)
C18_RouterFrame ==
    /\ [](\A n \in DOMAIN sent :
             sent[n].attachments = calls[sent[n].mid].msg.attachments)
    /\ [][ /\ (OnMessageStep =>
                  (rules' = rules /\ senders' = senders /\ sensitive' = sensitive))
            /\ (RegisterStep =>
                  /\ rules' = rules /\ sensitive' = sensitive /\ sent' = sent
                  /\ \A i \in DOMAIN senders :
                        /\ i \in DOMAIN senders'
                        /\ (senders'[i] # senders[i]) =>
                              (\E t \in TaskPool : /\ t.instance_id = i
                                                   /\ senders'[i] = SendOf(t)))
            /\ (phase \in {"spawn", "running", "exit"} =>
                  (rules' = rules /\ sensitive' = sensitive)) ]_vars

\* Two targets were handed a message that has an attachment, when all drivers
\* had started.
C18_Witness ==
    /\ phase = "running"
    /\ \E i, j \in DOMAIN sent :
          /\ i < j
          /\ sent[i].mid = sent[j].mid
          /\ sent[i].target # sent[j].target
          /\ sent[i].attachments # << >>
          /\ calls[sent[i].mid].st = "done"


(***************************************************************************)
(* Rule lists of MaxOrder rules, with every driver started and registered. *)
(***************************************************************************)
InitOrder ==
    /\ db = EmptyDB
    /\ phase = "running"
    /\ config = ConfigPool[1]
    /\ sensitive = _collect_sensitive(config)
    /\ started = DriverTasks(config)
    /\ senders = register_sender(
                    register_sender(
                      register_sender(EmptyDict, "c", SendOf(Task("mattermost", "c"))),
                      "b", SendOf(Task("rocketchat", "b"))),
                    "a", SendOf(Task("telegram", "a")))
    /\ calls = << >>
    /\ sent = << >>
    /\ log = << >>
    /\ registry = Imported
    /\ fetch = NoFetch
    /\ tasks = [n \in DOMAIN started |-> NewTask(started[n])]
    /\ \E tbl \in [1..MaxOrder -> 1..Len(RulePool)] :
          rules = [i \in DOMAIN tbl |-> RulePool[tbl[i]]]

NextOrder ==
    \/ Len(calls) < MaxOrderMsgs /\ \E n \in 1..Len(MsgPool) : ReceiveAwait(MsgPool[n])
    \/ Len(calls) < MaxOrderMsgs /\ \E n \in 1..Len(MsgPool) : ReceiveSpawn(MsgPool[n])
    \/ \E k \in 1..MaxMsgs : TaskStart(k)
    \/ \E k \in 1..MaxMsgs, outcome \in {"ok", "raise"} : SenderReturns(k, outcome)

SpecOrder == InitOrder /\ [][NextOrder]_vars

\* The source side of a rule, and the address it lists for an instance.
SourceSide(rule) == IF rule.type = "connect" THEN rule.channels ELSE rule.from

SourceAddress(rule, id) ==
    LET blk == DictGet(SourceSide(rule), id)
    IN  [key \in (DOMAIN blk) \ (IF rule.type = "connect" THEN {"msg"} ELSE {})
           |-> blk[key]]

\* Some message matches both rules: they list an instance in common, with
\* addresses that agree on every key both give.
Overlap(r1, r2) ==
    \E id \in DictKeys(SourceSide(r1)) \cap DictKeys(SourceSide(r2)) :
        \A key \in (DOMAIN SourceAddress(r1, id)) \cap (DOMAIN SourceAddress(r2, id)) :
            Str(SourceAddress(r1, id)[key]) = Str(SourceAddress(r2, id)[key])

SwapRules(rs, i, j) ==
    [n \in DOMAIN rs |-> IF n = i THEN rs[j] ELSE IF n = j THEN rs[i] ELSE rs[n]]

RECURSIVE AloneIn(_, _, _, _)
\* The invocations of a call run by itself over the rule list rs.
AloneIn(rs, c, sndrs, acc) ==
    LET r == RunIn(rs, c, sndrs)
    IN  IF r.st = "sending"
        THEN AloneIn(rs, _after_sender(r, "ok"), sndrs, acc \o r.inv)
        ELSE acc

\* What the claim compares of an invocation.
InvocationSet(invs) ==
    { [target |-> invs[n].target, channel |-> invs[n].channel,
       text |-> invs[n].text, extra |-> invs[n].extra] : n \in DOMAIN invs }

(***************************************************************************)
(* C19: for two rules of the list that no message matches both of, the     *)
(* set of sender invocations (target instance, channel, text, extra        *)
(* fields) of every handled message is the one the list with the two rules *)
(* exchanged gives.                                                        *)
(***************************************************************************)
C19_RuleOrderIndependent ==
    \A i, j \in DOMAIN rules :
        (i < j /\ ~Overlap(rules[i], rules[j])) =>
            \A k \in DOMAIN calls :
                (Finished(calls[k]) /\ calls[k].stable) =>
                    InvocationSet(SentOf(k))
                      = InvocationSet(AloneIn(SwapRules(rules, i, j),
                                              NewCall(k, calls[k].msg, "run"),
                                              calls[k].snd, << >>))


\* An instance block has a field its driver's schema does not declare.
HasUndeclaredField(p, block) ==
    \E i \in 1..Len(block.items) : block.items[i][1] \notin Schema(p)

\* An instance block fails validation in another way: a required field is
\* missing, a value has not the declared type, or the Rocket.Chat send
\* settings are incomplete.
FailsOtherwise(p, block) ==
    \/ \E key \in Required(p) : ~HasField(block, key)
    \/ \E i \in 1..Len(block.items) :
          /\ block.items[i][1] \in Schema(p)
          /\ ~Validates(block.items[i][2], FieldTy(block.items[i][1]))
    \/ p = "rocketchat" /\ ~_check_send_config(block)

\* Some configured instance block of a registered driver is one validation
\* rejects; some is one it accepts.
SomeBlockRejected(cfg) ==
    \E n \in 1..Len(Registry) :
        \E i \in 1..Len(Instances(cfg, Registry[n])) :
            \/ HasUndeclaredField(Registry[n], Instances(cfg, Registry[n])[i][2])
            \/ FailsOtherwise(Registry[n], Instances(cfg, Registry[n])[i][2])

SomeBlockValid(cfg) ==
    \E n \in 1..Len(Registry) :
        \E i \in 1..Len(Instances(cfg, Registry[n])) :
            /\ ~HasUndeclaredField(Registry[n], Instances(cfg, Registry[n])[i][2])
            /\ ~FailsOtherwise(Registry[n], Instances(cfg, Registry[n])[i][2])

RuleInstanceIds(rule) ==
    DictKeys(rule.from) \cup DictKeys(rule.to) \cup DictKeys(rule.channels)

ConfigInstanceIds(cfg) ==
    UNION { { cfg.items[n][2].items[i][1][1] :
                i \in 1..Len(cfg.items[n][2].items) } : n \in 1..Len(cfg.items) }

(***************************************************************************)
(* C21: once rules and config are loaded, every instance id named in the   *)
(* from, to or channels of a rule of the router's table is an instance of  *)
(* the configuration.                                                      *)
(***************************************************************************)
C21_RuleInstancesConfigured ==
    phase \notin {"init", "rules"} =>
        \A n \in DOMAIN rules : RuleInstanceIds(rules[n]) \subseteq ConfigInstanceIds(config)


(***************************************************************************)
(* The supervisor: main() from the validation on, the driver tasks to      *)
(* their end, cancellation.                                                *)
(***************************************************************************)
\* A config with a driver of each kind: a reconnecting one, one that serves
\* until cancelled, one whose start() returns at once.
SupConfig ==
    JDict(<< << Platform("mattermost"), JDict(<< << <<"c">>, MattermostBlock >> >>) >>,
             << Platform("telegram"),
                JDict(<< << <<"a">>, JDict(<< <<F_bot_token, JStr(TokenA)>> >>) >> >>) >>,
             << Platform("webhook"),
                JDict(<< << <<"b">>, JDict(<< <<F_url, JStr(UrlB)>> >>) >> >>) >> >>)

\* task.get_name(): f"{platform}/{inst_id}"
TaskName(t) == Platform(t.platform) \o <<"/">> \o <<t.instance_id>>

LogRec(level, name, kind) == [level |-> level, name |-> name, kind |-> kind]

TaskDone(tk) == tk.st \in {"returned", "raised", "cancelled"}
TaskAlive(tk) == tk.st \in {"login", "connecting", "connected", "sleeping", "serving"}

\* MattermostDriver.start: ws_connect and the authentication frame went through
Connect(n) ==
    /\ n \in DOMAIN tasks
    /\ tasks[n].st = "connecting"
    /\ tasks[n].attempts < MaxAttempts
    /\ tasks' = [tasks EXCEPT ![n].st = "connected", ![n].attempts = @ + 1]
    /\ UNCHANGED <<phase, rules, senders, sensitive, config, started, calls, sent,
                   log, registry, fetch, db>>

\* _on_task_done: the completion callback of a driver task
_on_task_done(t, how) ==
    IF how = "raised" THEN << LogRec("error", TaskName(t), "crashed") >> ELSE << >>

\* A mutant of ConnectionEnds: every exception of the connection is caught.
ConnectionEnds_catch_all(n, err) ==
    /\ n \in DOMAIN tasks
    /\ tasks[n].st \in {"connecting", "connected"}
    /\ tasks[n].st = "connecting" => (err # "closed" /\ tasks[n].attempts < MaxAttempts)
    /\ tasks' = [tasks EXCEPT ![n].st = "sleeping",
                              ![n].attempts = IF tasks[n].st = "connecting"
                                              THEN @ + 1 ELSE @]
    /\ log' = IF err = "closed" THEN log
              ELSE Append(log, LogRec("error", TaskName(started[n]), "connection error"))
    /\ UNCHANGED <<phase, rules, senders, sensitive, config, started, calls, sent,
                   registry, fetch, db>>

\* MattermostDriver.start, the body of `while True`: the attempt fails or the
\* connection ends.  A close frame ends the `async for`; aiohttp.ClientError
\* is caught and logged; both go on to the 5 s sleep.  Any other exception
\* (asyncio.TimeoutError of the handshake, say) leaves start().
ConnectionEnds(n, err) ==
    /\ n \in DOMAIN tasks
    /\ tasks[n].st \in {"connecting", "connected"}
    /\ tasks[n].st = "connecting" => (err # "closed" /\ tasks[n].attempts < MaxAttempts)
    /\ tasks' = [tasks EXCEPT ![n].st = IF err = "Other" THEN "raised" ELSE "sleeping",
                              ![n].attempts = IF tasks[n].st = "connecting"
                                              THEN @ + 1 ELSE @]
    /\ log' = IF err = "closed" THEN log
              ELSE IF err = "ClientError"
              THEN Append(log, LogRec("error", TaskName(started[n]), "connection error"))
              ELSE log \o _on_task_done(started[n], "raised")
    /\ UNCHANGED <<phase, rules, senders, sensitive, config, started, calls, sent,
                   registry, fetch, db>>

\* MattermostDriver.start: _on_event raised for one frame; the error is logged
\* and the `async for` goes on.
HandlerError(n) ==
    /\ n \in DOMAIN tasks
    /\ tasks[n].st = "connected"
    /\ Cardinality({ i \in DOMAIN log : log[i].kind = "handler error" }) < MaxHandlerErrors
    /\ log' = Append(log, LogRec("error", TaskName(started[n]), "handler error"))
    /\ UNCHANGED <<phase, rules, senders, sensitive, config, started, calls, sent,
                   tasks, registry, fetch, db>>

\* MattermostDriver.start: `await asyncio.sleep(5)` is over
BackoffOver(n) ==
    /\ n \in DOMAIN tasks
    /\ tasks[n].st = "sleeping"
    /\ tasks' = [tasks EXCEPT ![n].st = "connecting"]
    /\ UNCHANGED <<phase, rules, senders, sensitive, config, started, calls, sent,
                   log, registry, fetch, db>>

\* A mutant of ServeFails: the failure of one task cancels the others.
ServeFails_cancel_others(n) ==
    /\ n \in DOMAIN tasks
    /\ tasks[n].st = "serving"
    /\ tasks' = [m \in DOMAIN tasks |->
                   IF m = n THEN [tasks[m] EXCEPT !.st = "raised"]
                   ELSE IF TaskAlive(tasks[m])
                   THEN [tasks[m] EXCEPT !.st = "cancelling", !.was = tasks[m].st]
                   ELSE tasks[m]]
    /\ log' = log \o _on_task_done(started[n], "raised")
    /\ UNCHANGED <<phase, rules, senders, sensitive, config, started, calls, sent,
                   registry, fetch, db>>

\* TelegramDriver.start / RocketChatDriver.start: an await of the set-up or of
\* the serving raises (app.start(), start_polling(), site.start()); the task
\* ends with the exception and its completion callback runs.
ServeFails(n) ==
    /\ n \in DOMAIN tasks
    /\ tasks[n].st = "serving"
    /\ tasks' = [tasks EXCEPT ![n].st = "raised"]
    /\ log' = log \o _on_task_done(started[n], "raised")
    /\ UNCHANGED <<phase, rules, senders, sensitive, config, started, calls, sent,
                   registry, fetch, db>>

RECURSIVE ExitReports(_)
\* main(), lines 111-114: the loop over the results of gather
ExitReports(n) ==
    IF n = 0 THEN << >>
    ELSE ExitReports(n - 1) \o
         ( IF tasks[n].st = "raised"
           THEN << LogRec("error", TaskName(started[n]), "exited with error") >>
           ELSE << >> )

\* main(), lines 110-114: gather returns when every driver task is done
GatherReturns ==
    /\ phase = "running"
    /\ \A n \in DOMAIN tasks : TaskDone(tasks[n])
    /\ log' = log \o ExitReports(Len(tasks))
    /\ phase' = "finished"
    /\ UNCHANGED <<rules, senders, sensitive, config, started, calls, sent,
                   tasks, registry, fetch, db>>

\* A mutant of CancelMain: a task in its backoff sleep is not cancelled.
CancelMain_skip_sleeping ==
    /\ phase = "running"
    /\ \E n \in DOMAIN tasks : TaskAlive(tasks[n])
    /\ tasks' = [n \in DOMAIN tasks |->
                   IF TaskAlive(tasks[n]) /\ tasks[n].st # "sleeping"
                   THEN [tasks[n] EXCEPT !.st = "cancelling", !.was = tasks[n].st]
                   ELSE tasks[n]]
    /\ phase' = "shutdown"
    /\ UNCHANGED <<rules, senders, sensitive, config, started, calls, sent,
                   log, registry, fetch, db>>

\* main() is cancelled while it awaits gather: the gather future cancels every
\* task that is not done (and main, lines 115-118, cancels them again).
CancelMain ==
    /\ phase = "running"
    /\ \E n \in DOMAIN tasks : TaskAlive(tasks[n])
    /\ tasks' = [n \in DOMAIN tasks |->
                   IF TaskAlive(tasks[n])
                   THEN [tasks[n] EXCEPT !.st = "cancelling", !.was = tasks[n].st]
                   ELSE tasks[n]]
    /\ phase' = "shutdown"
    /\ UNCHANGED <<rules, senders, sensitive, config, started, calls, sent,
                   log, registry, fetch, db>>

\* A mutant of TaskCancelled: the driver takes its sender out of the table
\* when its start() ends.
TaskCancelled_unregister(n) ==
    /\ n \in DOMAIN tasks
    /\ tasks[n].st = "cancelling"
    /\ tasks' = [tasks EXCEPT ![n].st = "cancelled"]
    /\ log' = log \o _on_task_done(started[n], "cancelled")
    /\ senders' = [id \in (DOMAIN senders) \ {started[n].instance_id} |-> senders[id]]
    /\ UNCHANGED <<phase, rules, sensitive, config, started, calls, sent,
                   registry, fetch, db>>

\* CancelledError is raised at the await the task is suspended in; no handler
\* of start() catches it, the `finally` blocks run, the task ends cancelled.
TaskCancelled(n) ==
    /\ n \in DOMAIN tasks
    /\ tasks[n].st = "cancelling"
    /\ tasks' = [tasks EXCEPT ![n].st = "cancelled"]
    /\ log' = log \o _on_task_done(started[n], "cancelled")
    /\ UNCHANGED <<phase, rules, senders, sensitive, config, started, calls, sent,
                   registry, fetch, db>>

\* main(), lines 115-120: every task is done, the second gather returns
Drain ==
    /\ phase = "shutdown"
    /\ \A n \in DOMAIN tasks : TaskDone(tasks[n])
    /\ log' = log \o << LogRec("info", << >>, "shutting down"),
                        LogRec("info", << >>, "stopped") >>
    /\ phase' = "stopped"
    /\ UNCHANGED <<rules, senders, sensitive, config, started, calls, sent,
                   tasks, registry, fetch, db>>

InitSup ==
    /\ db = EmptyDB
    /\ phase = "config"
    /\ rules = << >>
    /\ senders = EmptyDict
    /\ config \in {SupConfig, ConfigPool[1], ConfigPool[2]}
    /\ sensitive = _collect_sensitive(config)
    /\ started = << >>
    /\ calls = << >>
    /\ sent = << >>
    /\ tasks = << >>
    /\ log = << >>
    /\ registry = Imported
    /\ fetch = NoFetch

NextSup ==
    \/ ValidateConfig
    \/ \E t \in TaskPool : StartDriver(t)
    \/ \E t \in TaskPool : RegisterLate(t)
    \/ \E n \in 1..Len(Registry) : Connect(n)
    \/ \E n \in 1..Len(Registry), err \in {"closed", "ClientError", "Other"} :
          ConnectionEnds(n, err)
    \/ \E n \in 1..Len(Registry) : HandlerError(n)
    \/ \E n \in 1..Len(Registry) : BackoffOver(n)
    \/ \E n \in 1..Len(Registry) : ServeFails(n)
    \/ GatherReturns
    \/ CancelMain
    \/ \E n \in 1..Len(Registry) : TaskCancelled(n)
    \/ Drain

SpecSup == InitSup /\ [][NextSup]_vars

\* The event loop runs every task that is ready: a cancelled task gets its
\* CancelledError, main resumes when gather is done.
SpecSupFair ==
    /\ SpecSup
    /\ \A n \in 1..Len(Registry) : WF_vars(TaskCancelled(n))
    /\ WF_vars(Drain)


\* The <<platform, instance>> pairs a config file gives for registered
\* platforms, read off the file.
ConfiguredInstances(cfg) ==
    { <<Registry[q], id>> : q \in 1..Len(Registry), id \in {"a", "b", "c"} } \cap
    { pr \in { <<Registry[q], id>> : q \in 1..Len(Registry), id \in {"a", "b", "c"} } :
        \E n \in 1..Len(cfg.items) :
            /\ cfg.items[n][1] = Platform(pr[1])
            /\ \E i \in 1..Len(cfg.items[n][2].items) :
                  cfg.items[n][2].items[i][1] = <<pr[2]>> }

Spawned == phase \in {"running", "finished", "shutdown", "stopped"}

(***************************************************************************)
(* C22: for a valid configuration there is exactly one driver task for     *)
(* every configured instance of every registered platform, named           *)
(* <platform>/<instance_id>; every start() was entered exactly once, and a *)
(* task that has returned or raised stays as it is.                        *)
(***************************************************************************)
C22_OneTaskPerInstance ==
    /\ [](Spawned =>
            /\ Len(started) = Cardinality(ConfiguredInstances(config))
            /\ \A pr \in ConfiguredInstances(config) :
                  Cardinality({ n \in DOMAIN started :
                                  TaskName(started[n])
                                    = Platform(pr[1]) \o <<"/">> \o <<pr[2]>> }) = 1
            /\ Len(tasks) = Len(started)
            /\ \A n \in DOMAIN tasks : tasks[n].starts = 1)
    /\ [][\A n \in DOMAIN tasks :
            tasks[n].st \in {"returned", "raised"} => tasks'[n] = tasks[n]]_vars

\* One driver has returned, one has raised, while a third is connected.
C22_Witness ==
    /\ phase = "running"
    /\ \E n, m, q \in DOMAIN tasks :
          /\ tasks[n].st = "returned"
          /\ tasks[m].st = "raised"
          /\ tasks[q].st = "connected"


(***************************************************************************)
(* C23: a step in which a driver task ends with an exception changes no    *)
(* other task and leaves main() waiting; a task is only ever cancelled in  *)
(* the step that cancels main(); main() is past its gather only when every *)
(* driver task has ended.                                                  *)
(***************************************************************************)
C23_CrashIsolation ==
    /\ [][\A n \in DOMAIN tasks :
            (tasks[n].st # "raised" /\ tasks'[n].st = "raised") =>
                /\ phase' = phase
                /\ \A m \in (DOMAIN tasks) \ {n} : tasks'[m] = tasks[m]]_vars
    /\ [][\A n \in DOMAIN tasks :
            (TaskAlive(tasks[n]) /\ tasks'[n].st \in {"cancelling", "cancelled"}) =>
                (phase = "running" /\ phase' = "shutdown")]_vars
    /\ [](phase \in {"finished", "stopped"} =>
            \A n \in DOMAIN tasks : TaskDone(tasks[n]))

\* A serving driver has raised; a connection loop went on to lose and regain
\* its connection afterwards, with main() still waiting.
C23_Witness ==
    /\ phase = "running"
    /\ \E n, m \in DOMAIN tasks :
          /\ tasks[n].st = "raised"
          /\ started[n].platform # "mattermost"
          /\ tasks[m].st = "connected"
          /\ tasks[m].attempts = 2
          /\ log # << >>
          /\ log[1] = LogRec("error", TaskName(started[n]), "crashed")


\* The log has a record naming task n.
Reported(n) == \E i \in DOMAIN log : log[i].name = TaskName(started[n])

(***************************************************************************)
(* C24: a driver task whose start() has returned or raised has a record in *)
(* the log that names the task; for a raise the record is at error level   *)
(* and is there as soon as the task is done.                               *)
(***************************************************************************)
C24_EveryExitReported ==
    \A n \in DOMAIN tasks :
        /\ tasks[n].st \in {"returned", "raised"} => Reported(n)
        /\ tasks[n].st = "raised" =>
              \E i \in DOMAIN log : log[i] = LogRec("error", TaskName(started[n]), "crashed")

\* The part of C24 about exits with an error.
ErrorExitReported ==
    \A n \in DOMAIN tasks :
        tasks[n].st = "raised" =>
            \E i \in DOMAIN log : log[i] = LogRec("error", TaskName(started[n]), "crashed")


(***************************************************************************)
(* C25: the step that cancels main() cancels every driver task that is not *)
(* done, one asleep between two connection attempts included; from then on *)
(* no task goes on running, main() has stopped only when all tasks are     *)
(* done, and it does stop.                                                 *)
(***************************************************************************)
C25_CancellationPropagates ==
    /\ [][(phase = "running" /\ phase' = "shutdown") =>
            \A n \in DOMAIN tasks :
                TaskAlive(tasks[n]) => tasks'[n].st = "cancelling"]_vars
    /\ [](phase \in {"shutdown", "stopped"} =>
            \A n \in DOMAIN tasks : ~TaskAlive(tasks[n]))
    /\ [](phase = "stopped" => \A n \in DOMAIN tasks : TaskDone(tasks[n]))
    /\ (phase = "shutdown") ~> (phase = "stopped")

\* main() has stopped after a cancellation that found one task in its backoff
\* sleep and another serving.
C25_Witness ==
    /\ phase = "stopped"
    /\ \E n, m \in DOMAIN tasks :
          /\ tasks[n].st = "cancelled" /\ tasks[n].was = "sleeping"
          /\ tasks[m].st = "cancelled" /\ tasks[m].was = "serving"


\* Task n runs a connection loop.
Reconnecting(n) == started[n].platform = "mattermost"

(***************************************************************************)
(* C28: in a reconnecting driver, whenever an attempt fails or a           *)
(* connection is lost, whatever the error, the task goes to its 5 s sleep  *)
(* (and from there to a new attempt): unless it is cancelled, start() does *)
(* not end; an error of the handler of one event leaves the connection as  *)
(* it is.                                                                  *)
(***************************************************************************)
C28_AlwaysReconnects ==
    [][\A n \in DOMAIN tasks :
          Reconnecting(n) =>
             /\ ( /\ tasks[n].st \in {"connecting", "connected"}
                  /\ tasks'[n].st \notin {"connecting", "connected", "cancelling"} )
                   => tasks'[n].st = "sleeping"
             /\ tasks[n].st = "sleeping" =>
                   tasks'[n].st \in {"sleeping", "connecting", "cancelling"}
             /\ tasks'[n].st \in {"returned", "raised"} => tasks[n].st = tasks'[n].st
             /\ HandlerError(n) => tasks'[n].st = "connected"]_vars


(***************************************************************************)
(* The driver registry while the driver modules are imported.              *)
(***************************************************************************)
\* drivers.registry.register: _REGISTRY[name] = (config_cls, driver_cls)
register(reg, name, entry) ==
    IF name \in DictKeys(reg)
    THEN [i \in 1..Len(reg) |-> IF reg[i][1] = name THEN <<name, entry>> ELSE reg[i]]
    ELSE Append(reg, <<name, entry>>)

\* The entry a driver module registers; `other` is a second module that uses
\* the same platform name.
EntryOf(name, module) ==
    IF module = "own" THEN DriverEntry(name)
    ELSE [config_cls |-> <<name, "Config2">>, driver_cls |-> <<name, "Driver2">>]

\* A driver module is imported and its register(...) call runs.
ImportModule(name, module) ==
    /\ Len(log) < MaxRegs
    /\ registry' = register(registry, name, EntryOf(name, module))
    /\ log' = Append(log, [level |-> "call", name |-> name, kind |-> "register",
                           entry |-> EntryOf(name, module)])
    /\ UNCHANGED <<phase, rules, senders, sensitive, config, started, calls, sent,
                   tasks, fetch, db>>

InitReg ==
    /\ db = EmptyDB
    /\ phase = "init"
    /\ rules = << >>
    /\ senders = EmptyDict
    /\ sensitive = {}
    /\ config = JDict(<< >>)
    /\ started = << >>
    /\ calls = << >>
    /\ sent = << >>
    /\ tasks = << >>
    /\ log = << >>
    /\ registry = << >>
    /\ fetch = NoFetch

NextReg ==
    \E n \in 1..Len(Registry), module \in {"own", "other"} :
        ImportModule(Registry[n], module)

SpecReg == InitReg /\ [][NextReg]_vars

\* The first register call made for a name.
FirstCall(name) ==
    log[CHOOSE i \in DOMAIN log :
          /\ log[i].name = name
          /\ \A j \in DOMAIN log : log[j].name = name => i <= j]

(***************************************************************************)
(* C26: the registry holds one entry per registered platform name, and it  *)
(* is the entry of the first register call made for that name.             *)
(***************************************************************************)
C26_FirstRegistrationKept ==
    /\ \A i, j \in 1..Len(registry) : registry[i][1] = registry[j][1] => i = j
    /\ DictKeys(registry) = { log[i].name : i \in DOMAIN log }
    /\ \A name \in DictKeys(registry) :
          DictGet(registry, name) = FirstCall(name).entry

\* The part of C26 that holds: one entry per name, for the names registered.
OneEntryPerName ==
    /\ \A i, j \in 1..Len(registry) : registry[i][1] = registry[j][1] => i = j
    /\ DictKeys(registry) = { log[i].name : i \in DOMAIN log }


(***************************************************************************)
(* services/media.py: one call fetch_attachment(att, max_bytes).  Bytes    *)
(* are sequences; an optional value is a record with the flag `some`.      *)
(* The server is what the call will meet: how HEAD answers ("fail": the    *)
(* request raises; cl: the Content-Length header, absent, a number or not  *)
(* a number), how GET answers (an error status, or a body that may break   *)
(* off after `breaks` bytes).                                              *)
(***************************************************************************)
None == [some |-> FALSE, bytes |-> << >>, mime |-> << >>]
Some(bytes, mime) == [some |-> TRUE, bytes |-> bytes, mime |-> mime]

Bytes(n) == [i \in 1..n |-> i]

OctetStream == <<"application/octet-stream">>

\* mimetypes.guess_type(att.name)[0] or "application/octet-stream"
GuessMime(name) == IF name = <<"a.png">> THEN <<"image/png">> ELSE OctetStream

Attachment(url, name, data) == [type |-> "image", url |-> url, name |-> name, data |-> data]

AttPool ==
    { Attachment(url, name, data) :
        url \in { << >>, <<"u">> },
        name \in { << >>, <<"a.png">> },
        data \in {None} \cup { Some(Bytes(n), << >>) : n \in 0..MaxBytes + 1 } }

ServerPool ==
    [ head : {"fail", "ok"},
      cl : { [given |-> "absent", n |-> 0], [given |-> "garbage", n |-> 0] }
             \cup { [given |-> "number", n |-> n] : n \in 0..MaxBody },
      get : {"ok", "refused", "timeout"},
      status : {200, 404},
      body : { Bytes(n) : n \in 0..MaxBody },
      ctype : { << >>, <<"image/png">> } ]

\* A mutant of fetch_attachment: the URL is downloaded whenever there is one.
fetch_attachment_url_first(f) ==
    IF f.att.url # << >> THEN [f EXCEPT !.pc = "head"]
    ELSE IF f.att.data.some
    THEN [f EXCEPT !.pc = "done",
                   !.result = IF Len(f.att.data.bytes) > f.max_bytes THEN None
                              ELSE Some(f.att.data.bytes, GuessMime(f.att.name))]
    ELSE [f EXCEPT !.pc = "done", !.result = None]

\* fetch_attachment, lines 86-93, and the head of fetch, lines 39-42
fetch_attachment(f) ==
    IF f.att.data.some
    THEN [f EXCEPT !.pc = "done",
                   !.result = IF Len(f.att.data.bytes) > f.max_bytes THEN None
                              ELSE Some(f.att.data.bytes, GuessMime(f.att.name))]
    ELSE IF f.att.url = << >>
    THEN [f EXCEPT !.pc = "done", !.result = None]
    ELSE [f EXCEPT !.pc = "head"]

\* A mutant of fetch_head: the answer of the HEAD request is not looked at.
fetch_head_ignored(f) ==
    [f EXCEPT !.reqs = Append(@, "HEAD"), !.pc = "get"]

\* fetch, lines 48-59: the HEAD request.  Whatever it raises (int(cl) of a
\* header that is no number included) is dropped and the GET follows.
fetch_head(f) ==
    LET g == [f EXCEPT !.reqs = Append(@, "HEAD")]
    IN  IF f.srv.head = "fail" \/ f.srv.cl.given # "number"
        THEN [g EXCEPT !.pc = "get"]
        ELSE IF f.srv.cl.n > f.max_bytes
        THEN [g EXCEPT !.pc = "done", !.result = None]
        ELSE [g EXCEPT !.pc = "get"]

\* A mutant of fetch_get: the errors of the GET leave fetch.
fetch_get_uncaught(f) ==
    LET g == [f EXCEPT !.reqs = Append(@, "GET")]
    IN  IF f.srv.get # "ok" \/ f.srv.status # 200
        THEN [g EXCEPT !.pc = "raised"]
        ELSE [g EXCEPT !.pc = "body"]

\* fetch, lines 60-63 and 74-76: the GET request and raise_for_status.  A
\* refused connection, a timeout and a status of 400 or more raise inside the
\* outer try; the error is logged and fetch returns None.
fetch_get(f) ==
    LET g == [f EXCEPT !.reqs = Append(@, "GET")]
    IN  IF f.srv.get # "ok" \/ f.srv.status # 200
        THEN [g EXCEPT !.pc = "done", !.result = None]
        ELSE [g EXCEPT !.pc = "body"]

\* A mutant of fetch_chunk: the size test is on the chunk, not on the total.
fetch_chunk_each(f, n, breaks) ==
    IF breaks THEN [f EXCEPT !.pc = "done", !.result = None]
    ELSE IF f.total = Len(f.srv.body)
    THEN [f EXCEPT !.pc = "done",
                   !.result = Some(f.buf, IF f.srv.ctype = << >> THEN OctetStream
                                          ELSE f.srv.ctype)]
    ELSE LET k == IF f.total + n > Len(f.srv.body) THEN Len(f.srv.body) - f.total ELSE n
         IN  IF k > f.max_bytes
             THEN [f EXCEPT !.pc = "done", !.result = None, !.total = @ + k]
             ELSE [f EXCEPT !.total = @ + k,
                            !.buf = @ \o SubSeq(f.srv.body, f.total + 1, f.total + k)]

\* A mutant of fetch_chunk: a total that reaches max_bytes ends the download.
fetch_chunk_at_cap(f, n, breaks) ==
    IF breaks THEN [f EXCEPT !.pc = "done", !.result = None]
    ELSE IF f.total = Len(f.srv.body)
    THEN [f EXCEPT !.pc = "done",
                   !.result = Some(f.buf, IF f.srv.ctype = << >> THEN OctetStream
                                          ELSE f.srv.ctype)]
    ELSE LET k == IF f.total + n > Len(f.srv.body) THEN Len(f.srv.body) - f.total ELSE n
         IN  IF f.total + k >= f.max_bytes
             THEN [f EXCEPT !.pc = "done", !.result = None, !.total = @ + k]
             ELSE [f EXCEPT !.total = @ + k,
                            !.buf = @ \o SubSeq(f.srv.body, f.total + 1, f.total + k)]

\* fetch, lines 65-72: one round of `async for chunk in iter_chunked(65536)`,
\* the chunk having n bytes, or its end; `breaks`: the read raises.
fetch_chunk(f, n, breaks) ==
    IF breaks THEN [f EXCEPT !.pc = "done", !.result = None]
    ELSE IF f.total = Len(f.srv.body)
    THEN [f EXCEPT !.pc = "done",
                   !.result = Some(f.buf, IF f.srv.ctype = << >> THEN OctetStream
                                          ELSE f.srv.ctype)]
    ELSE LET k == IF f.total + n > Len(f.srv.body) THEN Len(f.srv.body) - f.total ELSE n
         IN  IF f.total + k > f.max_bytes
             THEN [f EXCEPT !.pc = "done", !.result = None, !.total = @ + k]
             ELSE [f EXCEPT !.total = @ + k,
                            !.buf = @ \o SubSeq(f.srv.body, f.total + 1, f.total + k)]

RouterIdle == UNCHANGED <<phase, rules, senders, sensitive, config, started, calls,
                          sent, tasks, log, registry, db>>

FetchAttachment ==
    /\ fetch.pc = "start"
    /\ fetch' = fetch_attachment(fetch)
    /\ RouterIdle

FetchHead ==
    /\ fetch.pc = "head"
    /\ fetch' = fetch_head(fetch)
    /\ RouterIdle

FetchGet ==
    /\ fetch.pc = "get"
    /\ fetch' = fetch_get(fetch)
    /\ RouterIdle

FetchChunk(n, breaks) ==
    /\ fetch.pc = "body"
    /\ fetch' = fetch_chunk(fetch, n, breaks)
    /\ RouterIdle

InitMedia ==
    /\ db = EmptyDB
    /\ phase = "running"
    /\ rules = << >>
    /\ senders = EmptyDict
    /\ sensitive = {}
    /\ config = JDict(<< >>)
    /\ started = << >>
    /\ calls = << >>
    /\ sent = << >>
    /\ tasks = << >>
    /\ log = << >>
    /\ registry = Imported
    /\ \E att \in AttPool, max_bytes \in 0..MaxBytes, srv \in ServerPool :
          fetch = [ pc |-> "start", att |-> att, max_bytes |-> max_bytes, srv |-> srv,
                    total |-> 0, buf |-> << >>, reqs |-> << >>, result |-> None ]

NextMedia ==
    \/ FetchAttachment
    \/ FetchHead
    \/ FetchGet
    \/ \E n \in 1..ChunkSize, breaks \in BOOLEAN : FetchChunk(n, breaks)

SpecMedia == InitMedia /\ [][NextMedia]_vars

(***************************************************************************)
(* C29: fetch_attachment never returns a buffer longer than max_bytes,     *)
(* from att.data or from the download, whatever Content-Length the server  *)
(* declared.                                                               *)
(***************************************************************************)
C29_MediaSizeCap ==
    (fetch.pc = "done" /\ fetch.result.some) =>
        Len(fetch.result.bytes) <= fetch.max_bytes

\* A download of exactly max_bytes bytes was returned; the HEAD answer had
\* declared fewer bytes than the body has.
C29_Witness ==
    /\ fetch.pc = "done"
    /\ fetch.result.some
    /\ fetch.reqs = <<"HEAD", "GET">>
    /\ fetch.srv.head = "ok"
    /\ fetch.srv.cl.given = "number"
    /\ fetch.srv.cl.n < Len(fetch.srv.body)
    /\ Len(fetch.result.bytes) = fetch.max_bytes
    /\ fetch.max_bytes > 1

(***************************************************************************)
(* C30: when att.data is present no HEAD and no GET is made; the result is *)
(* none when att.data is longer than max_bytes and att.data itself         *)
(* otherwise, att.url being set or not.                                    *)
(***************************************************************************)
C30_PrefetchedSkipsNetwork ==
    (fetch.pc # "idle" /\ fetch.att.data.some) =>
        /\ fetch.reqs = << >>
        /\ fetch.pc \in {"start", "done"}
        /\ fetch.pc = "done" =>
              IF Len(fetch.att.data.bytes) > fetch.max_bytes
              THEN ~fetch.result.some
              ELSE /\ fetch.result.some
                   /\ fetch.result.bytes = fetch.att.data.bytes
                   /\ fetch.result.mime = GuessMime(fetch.att.name)

\* Pre-fetched data of exactly max_bytes bytes was returned for an attachment
\* that also has a URL.
C30_Witness ==
    /\ fetch.pc = "done"
    /\ fetch.att.data.some
    /\ fetch.att.url # << >>
    /\ fetch.result.some
    /\ Len(fetch.result.bytes) = fetch.max_bytes
    /\ fetch.max_bytes > 0

(***************************************************************************)
(* Driver send functions that are registered before the connection exists: *)
(* NapCatDriver (one WebSocket, reconnected in a loop) and TelegramDriver   *)
(* (a bot application that is built, then initialised and polled).  `tasks` *)
(* holds the one driver, `calls` the frames of its send calls, `sent` what  *)
(* the driver handed to its transport, `log` the warnings and errors.       *)
(***************************************************************************)
MaxSends == 2

\* NapCatDriver.start up to its first await: the sender is registered,
\* self._ws is None, websockets.connect is about to be awaited.
NapCatStarted ==
    [platform |-> "napcat", instance_id |-> "a", st |-> "connecting",
     conn |-> "none", attempts |-> 0]

\* TelegramDriver.start up to its first await: the sender is registered and,
\* with no await in between, self._app is the built application; initialize(),
\* start() and start_polling() are still to be awaited.
TelegramStarted ==
    [platform |-> "telegram", instance_id |-> "a", st |-> "initialising",
     conn |-> "built", attempts |-> 0]

\* The driver's connection or session is ready for a send.
Ready(d) ==
    IF d.platform = "napcat" THEN d.conn = "open" ELSE d.st = "polling"

\* The channel ids a rule may carry, the texts and the attachments of a call.
ChannelIds == {"missing", "num", "bad"}
AttKinds == {"none", "image", "file"}

SendFrame(ch, text, att, pc) == [ch |-> ch, text |-> text, att |-> att, pc |-> pc]

Wire(k, action) == [call |-> k, action |-> action]

\* What a call leaves behind when it runs from some point to its next await or
\* to its end: the frame's pc, what was handed to the transport, what was logged.
Effect(pc, wire, logged) == [pc |-> pc, wire |-> wire, logged |-> logged]

\* `await self._ws.send(...)` inside `try ... except Exception`: with self._ws
\* None the attribute lookup raises AttributeError, on a closed socket send
\* raises ConnectionClosed; both are caught and logged.
ws_send(d, k, action) ==
    IF d.conn = "open"
    THEN Effect("returned", << Wire(k, action) >>, << >>)
    ELSE Effect("returned", << >>, << LogRec("error", d.platform, "send failed") >>)

\* NapCatDriver.send from `if not segments` on: the payload is built, with
\* int(group_id) outside the try, and sent.
napcat_final(d, k, f, segments) ==
    IF ~segments THEN Effect("returned", << >>, << >>)
    ELSE IF f.ch = "bad" THEN Effect("raised", << >>, << >>)
    ELSE ws_send(d, k, "send_group_msg")

\* NapCatDriver.send up to its first await or its end.
napcat_send(d, k, f) ==
    IF f.ch = "missing"
    THEN Effect("returned", << >>, << LogRec("warning", d.platform, "no group_id") >>)
    ELSE IF d.conn = "none"
    THEN Effect("returned", << >>, << LogRec("warning", d.platform, "dropped") >>)
    ELSE IF f.att # "none" THEN Effect("fetching", << >>, << >>)
    ELSE napcat_final(d, k, f, f.text)

\* NapCatDriver.send after media.fetch_attachment returned `result`: an image
\* becomes a segment (or a text segment when the fetch failed); a file is
\* uploaded with a frame of its own, int(group_id) again outside the try.
napcat_resume(d, k, f, result) ==
    IF f.att = "image" \/ ~result THEN napcat_final(d, k, f, TRUE)
    ELSE IF f.ch = "bad" THEN Effect("raised", << >>, << >>)
    ELSE LET up == ws_send(d, k, "upload_group_file")
             fin == napcat_final(d, k, f, f.text)
         IN  Effect(fin.pc, up.wire \o fin.wire, up.logged \o fin.logged)

\* A call of self._app.bot.send_*: the library performs the request or raises;
\* the call is inside `try ... except Exception`.
bot_send(d, k, action, outcome) ==
    IF outcome = "ok"
    THEN Effect("returned", << Wire(k, action) >>, << >>)
    ELSE Effect("returned", << >>, << LogRec("error", d.platform, "send failed") >>)

\* TelegramDriver.send up to its first await or its end.
telegram_send(d, k, f, outcome) ==
    IF f.ch = "missing"
    THEN Effect("returned", << >>, << LogRec("warning", d.platform, "no chat_id") >>)
    ELSE IF d.conn = "none"
    THEN Effect("returned", << >>, << LogRec("warning", d.platform, "not started") >>)
    ELSE IF f.ch = "bad" THEN Effect("raised", << >>, << >>)
    ELSE IF f.att # "none" THEN Effect("fetching", << >>, << >>)
    ELSE IF f.text THEN bot_send(d, k, "send_message", outcome)
    ELSE Effect("returned", << >>, << >>)

\* TelegramDriver.send after media.fetch_attachment returned `result`: the
\* attachment is sent with the text as its caption, or its label is added to
\* the text and the text is sent.
telegram_resume(d, k, f, result, outcome) ==
    IF result
    THEN bot_send(d, k, IF f.att = "image" THEN "send_photo" ELSE "send_document",
                  outcome)
    ELSE bot_send(d, k, "send_message", outcome)

\* The router calls the registered sender.
SendCalled(ch, text, att, outcome) ==
    /\ Len(calls) < MaxSends
    /\ LET d == tasks[1]
           k == Len(calls) + 1
           f == SendFrame(ch, text, att, "entered")
           e == IF d.platform = "napcat" THEN napcat_send(d, k, f)
                ELSE telegram_send(d, k, f, outcome)
       IN  /\ calls' = Append(calls, [f EXCEPT !.pc = e.pc])
           /\ sent' = sent \o e.wire
           /\ log' = log \o e.logged
    /\ UNCHANGED <<phase, rules, senders, sensitive, config, started, tasks,
                   registry, fetch, db>>

\* media.fetch_attachment returns to a suspended send.
SendResumes(k, result, outcome) ==
    /\ k \in DOMAIN calls
    /\ calls[k].pc = "fetching"
    /\ LET d == tasks[1]
           e == IF d.platform = "napcat" THEN napcat_resume(d, k, calls[k], result)
                ELSE telegram_resume(d, k, calls[k], result, outcome)
       IN  /\ calls' = [calls EXCEPT ![k].pc = e.pc]
           /\ sent' = sent \o e.wire
           /\ log' = log \o e.logged
    /\ UNCHANGED <<phase, rules, senders, sensitive, config, started, tasks,
                   registry, fetch, db>>

\* NapCatDriver.start: websockets.connect succeeded and self._ws is set, or it
\* raised, the error is logged and the finally leaves self._ws None.
NapCatConnect(ok) ==
    /\ tasks[1].platform = "napcat"
    /\ tasks[1].st = "connecting"
    /\ tasks[1].attempts < MaxAttempts
    /\ tasks' = IF ok
                THEN [tasks EXCEPT ![1].st = "listening", ![1].conn = "open",
                                   ![1].attempts = @ + 1]
                ELSE [tasks EXCEPT ![1].st = "sleeping", ![1].conn = "none",
                                   ![1].attempts = @ + 1]
    /\ log' = IF ok THEN log
              ELSE Append(log, LogRec("error", "napcat", "connection error"))
    /\ UNCHANGED <<phase, rules, senders, sensitive, config, started, calls, sent,
                   registry, fetch, db>>

\* The peer goes away: the socket is closed, start() has not run yet and
\* self._ws still is the socket.
NapCatPeerCloses ==
    /\ tasks[1].platform = "napcat"
    /\ tasks[1].st = "listening"
    /\ tasks[1].conn = "open"
    /\ tasks' = [tasks EXCEPT ![1].conn = "closed"]
    /\ UNCHANGED <<phase, rules, senders, sensitive, config, started, calls, sent,
                   log, registry, fetch, db>>

\* NapCatDriver.start: _listen ended on the closed socket; the exception is
\* logged, `finally: self._ws = None`, then the 5 s sleep.
NapCatListenEnds ==
    /\ tasks[1].platform = "napcat"
    /\ tasks[1].st = "listening"
    /\ tasks[1].conn = "closed"
    /\ tasks' = [tasks EXCEPT ![1].st = "sleeping", ![1].conn = "none"]
    /\ log' = Append(log, LogRec("error", "napcat", "connection error"))
    /\ UNCHANGED <<phase, rules, senders, sensitive, config, started, calls, sent,
                   registry, fetch, db>>

\* NapCatDriver.start: `await asyncio.sleep(5)` is over
NapCatSleepOver ==
    /\ tasks[1].platform = "napcat"
    /\ tasks[1].st = "sleeping"
    /\ tasks' = [tasks EXCEPT ![1].st = "connecting"]
    /\ UNCHANGED <<phase, rules, senders, sensitive, config, started, calls, sent,
                   log, registry, fetch, db>>

\* TelegramDriver.start: initialize(), start() and start_polling() are through
TelegramPolling ==
    /\ tasks[1].platform = "telegram"
    /\ tasks[1].st = "initialising"
    /\ tasks' = [tasks EXCEPT ![1].st = "polling"]
    /\ UNCHANGED <<phase, rules, senders, sensitive, config, started, calls, sent,
                   log, registry, fetch, db>>

InitSend ==
    /\ db = EmptyDB
    /\ phase = "running"
    /\ rules = << >>
    /\ senders = EmptyDict
    /\ sensitive = {}
    /\ config = JDict(<< >>)
    /\ started = << >>
    /\ calls = << >>
    /\ sent = << >>
    /\ tasks \in { << NapCatStarted >>, << TelegramStarted >> }
    /\ log = << >>
    /\ registry = Imported
    /\ fetch = NoFetch

NextSend ==
    \/ \E ch \in ChannelIds, text \in BOOLEAN, att \in AttKinds,
          outcome \in {"ok", "error"} : SendCalled(ch, text, att, outcome)
    \/ \E k \in 1..MaxSends, result \in BOOLEAN, outcome \in {"ok", "error"} :
          SendResumes(k, result, outcome)
    \/ \E ok \in BOOLEAN : NapCatConnect(ok)
    \/ NapCatPeerCloses
    \/ NapCatListenEnds
    \/ NapCatSleepOver
    \/ TelegramPolling

SpecSend == InitSend /\ [][NextSend]_vars

\* A step of a send call: it is entered, or it resumes after its media fetch.
SendStep(k) ==
    \/ k = Len(calls) + 1 /\ Len(calls') = k
    \/ k \in DOMAIN calls /\ calls[k].pc = "fetching" /\ calls'[k].pc # "fetching"

(***************************************************************************)
(* C27: a send that is entered, or that resumes after its media fetch,     *)
(* while the driver's connection is not ready (not yet made, lost and not  *)
(* yet made again, or lost during the fetch) does not raise to its caller  *)
(* and hands nothing to the transport.                                     *)
(***************************************************************************)
C27_EarlyRegistrationSafe ==
    [][ \A k \in 1..MaxSends :
          (SendStep(k) /\ ~Ready(tasks[1])) =>
              (calls'[k].pc # "raised" /\ sent' = sent) ]_vars

\* The same for a NapCat driver and calls whose group_id is a number.
NapCatDropsWhenDown ==
    [][ \A k \in 1..MaxSends :
          (SendStep(k) /\ tasks[1].platform = "napcat" /\ ~Ready(tasks[1])
              /\ calls'[k].ch # "bad") =>
              (calls'[k].pc # "raised" /\ sent' = sent) ]_vars

\* A Telegram send entered before polling had started handed a message to the
\* bot library's transport.
TelegramSendsBeforePolling ==
    /\ tasks[1].platform = "telegram"
    /\ tasks[1].st = "initialising"
    /\ sent # << >>

(***************************************************************************)
(* C31: a HEAD answer whose Content-Length is a number above max_bytes     *)
(* ends fetch with none and without a GET; after a HEAD request that       *)
(* failed or whose answer has no Content-Length the GET is made.           *)
(***************************************************************************)
C31_HeadPreCheck ==
    /\ ( /\ fetch.pc \notin {"idle", "start", "head"}
         /\ ~fetch.att.data.some
         /\ fetch.att.url # << >>
         /\ fetch.srv.head = "ok"
         /\ fetch.srv.cl.given = "number"
         /\ fetch.srv.cl.n > fetch.max_bytes )
       => ( fetch.pc = "done" /\ ~fetch.result.some /\ fetch.reqs = <<"HEAD">> )
    /\ ( /\ fetch.pc \in {"body", "done"}
         /\ fetch.reqs # << >>
         /\ (fetch.srv.head = "fail" \/ fetch.srv.cl.given = "absent") )
       => fetch.reqs = <<"HEAD", "GET">>

\* The HEAD answer declared more than max_bytes and fetch ended after it.
C31_Witness ==
    /\ fetch.pc = "done"
    /\ fetch.reqs = <<"HEAD">>
    /\ fetch.srv.head = "ok"
    /\ fetch.srv.cl.given = "number"
    /\ fetch.srv.cl.n = fetch.max_bytes + 1
    /\ ~fetch.result.some

\* A round of the streamed read that neither raises nor is skipped.
ReadsOn == \E n \in 1..ChunkSize : FetchChunk(n, FALSE)

(***************************************************************************)
(* C32: while the body is read the running total is at most max_bytes; the *)
(* round that takes the total above max_bytes ends fetch with none, so no  *)
(* more than max_bytes plus one chunk is read; a round that took a chunk    *)
(* gives up only then, and a body of exactly max_bytes bytes whose read    *)
(* does not fail is returned whole.                                        *)
(***************************************************************************)
C32_StreamingAbort ==
    /\ [](fetch.pc = "body" => fetch.total <= fetch.max_bytes)
    /\ []((fetch.pc = "done" /\ fetch.reqs = <<"HEAD", "GET">>) =>
            /\ fetch.total <= fetch.max_bytes + ChunkSize
            /\ fetch.total > fetch.max_bytes => ~fetch.result.some)
    /\ [][ ( /\ ReadsOn
             /\ Len(fetch.srv.body) = fetch.max_bytes
             /\ fetch.total = Len(fetch.srv.body) )
           => ( /\ fetch'.pc = "done"
                /\ fetch'.result.some
                /\ fetch'.result.bytes = fetch.srv.body ) ]_vars
    /\ [][ ( /\ fetch.pc = "body"
             /\ fetch'.pc = "done"
             /\ fetch'.total # fetch.total
             /\ ~fetch'.result.some )
           => fetch'.total > fetch.max_bytes ]_vars

\* The download was given up in the round that took the total above
\* max_bytes, after at least one chunk had been kept.
C32_Witness ==
    /\ fetch.pc = "done"
    /\ ~fetch.result.some
    /\ fetch.total > fetch.max_bytes
    /\ fetch.buf # << >>
    /\ fetch.total < Len(fetch.srv.body)

(***************************************************************************)
(* C33: fetch and fetch_attachment end with a value, never with an         *)
(* exception: a refused connection, a timeout, a status that is no         *)
(* success, and an attachment with neither data nor url give none.         *)
(***************************************************************************)
C33_FetchFailuresAreValues ==
    /\ fetch.pc # "raised"
    /\ ( /\ fetch.pc = "done"
         /\ ~fetch.att.data.some
         /\ \/ fetch.att.url = << >>
            \/ /\ fetch.reqs = <<"HEAD", "GET">>
               /\ (fetch.srv.get # "ok" \/ fetch.srv.status # 200) )
       => ~fetch.result.some

\* The GET of a download timed out after a HEAD request that went through.
C33_Witness ==
    /\ fetch.pc = "done"
    /\ fetch.reqs = <<"HEAD", "GET">>
    /\ fetch.srv.head = "ok"
    /\ fetch.srv.get = "timeout"
    /\ ~fetch.result.some

(***************************************************************************)
(* media.filename_for: the file name a driver gives an attachment, from    *)
(* the name hint and the MIME type of the download.  `fetch` holds one     *)
(* call and the call made again on its result.                             *)
(***************************************************************************)
MaxName == 5

\* The characters of the name hints, and the hints.
NameChars == {"a", ".", "t", "m", "p"}
NamePool == UNION { [1..n -> NameChars] : n \in 0..MaxName }

\* _mime_ext, lines 98-109
_mime_ext ==
    "image/jpeg" :> <<"j", "p", "g">>
    @@ "image/png" :> <<"p", "n", "g">>
    @@ "image/gif" :> <<"g", "i", "f">>
    @@ "image/webp" :> <<"w", "e", "b", "p">>
    @@ "video/mp4" :> <<"m", "p", "4">>
    @@ "video/webm" :> <<"w", "e", "b", "m">>
    @@ "audio/ogg" :> <<"o", "g", "g">>
    @@ "audio/mpeg" :> <<"m", "p", "3">>
    @@ "audio/aac" :> <<"a", "a", "c">>
    @@ "audio/amr" :> <<"a", "m", "r">>

\* _fallback, lines 119-130
_fallback ==
    "image/jpeg" :> <<"p", "h", "o", "t", "o", ".", "j", "p", "g">>
    @@ "image/png" :> <<"p", "h", "o", "t", "o", ".", "p", "n", "g">>
    @@ "image/gif" :> <<"i", "m", "a", "g", "e", ".", "g", "i", "f">>
    @@ "image/webp" :> <<"i", "m", "a", "g", "e", ".", "w", "e", "b", "p">>
    @@ "video/mp4" :> <<"v", "i", "d", "e", "o", ".", "m", "p", "4">>
    @@ "video/webm" :> <<"v", "i", "d", "e", "o", ".", "w", "e", "b", "m">>
    @@ "audio/ogg" :> <<"v", "o", "i", "c", "e", ".", "o", "g", "g">>
    @@ "audio/mpeg" :> <<"a", "u", "d", "i", "o", ".", "m", "p", "3">>
    @@ "audio/aac" :> <<"a", "u", "d", "i", "o", ".", "a", "a", "c">>
    @@ "audio/amr" :> <<"v", "o", "i", "c", "e", ".", "a", "m", "r">>

\* The content types of a call: those of the tables, one that is in neither
\* table, and the empty one.
MimePool == DOMAIN _mime_ext \cup {"application/pdf", ""}

\* The default of _fallback.get, line 131
AttachmentBin == <<"a","t","t","a","c","h","m","e","n","t",".","b","i","n">>

DotTmp == <<".", "t", "m", "p">>

\* name.endswith(".tmp")
EndsWithTmp(name) ==
    /\ Len(name) >= 4
    /\ SubSeq(name, Len(name) - 3, Len(name)) = DotTmp

\* name[:-4]
Stem(name) == SubSeq(name, 1, Len(name) - 4)

\* A mutant of filename_for: the name hint is returned as it is.
filename_for_as_is(name, content_type) ==
    IF name # << >> THEN name
    ELSE IF content_type \in DOMAIN _fallback THEN _fallback[content_type]
    ELSE AttachmentBin

\* filename_for, lines 96-131
filename_for(name, content_type) ==
    IF name # << >>
    THEN IF EndsWithTmp(name) /\ content_type \in DOMAIN _mime_ext
         THEN Stem(name) \o <<".">> \o _mime_ext[content_type]
         ELSE name
    ELSE IF content_type \in DOMAIN _fallback THEN _fallback[content_type]
    ELSE AttachmentBin

\* A driver calls filename_for on the name hint of an attachment.
FilenameFor ==
    /\ fetch.pc = "call"
    /\ fetch' = [fetch EXCEPT !.pc = "named",
                              !.out = filename_for(fetch.name, fetch.mime)]
    /\ RouterIdle

\* The name it got is given to filename_for again, with the same type.
FilenameForAgain ==
    /\ fetch.pc = "named"
    /\ fetch' = [fetch EXCEPT !.pc = "renamed",
                              !.again = filename_for(fetch.out, fetch.mime)]
    /\ RouterIdle

InitName ==
    /\ db = EmptyDB
    /\ phase = "running"
    /\ rules = << >>
    /\ senders = EmptyDict
    /\ sensitive = {}
    /\ config = JDict(<< >>)
    /\ started = << >>
    /\ calls = << >>
    /\ sent = << >>
    /\ tasks = << >>
    /\ log = << >>
    /\ registry = Imported
    /\ \E name \in NamePool, mime \in MimePool :
          fetch = [pc |-> "call", name |-> name, mime |-> mime,
                   out |-> << >>, again |-> << >>]

NextName ==
    \/ FilenameFor
    \/ FilenameForAgain

SpecName == InitName /\ [][NextName]_vars

\* C34 as the specification states it: every name that ends in .tmp comes
\* back with that suffix replaced, whatever the content type.
C34_TmpAlwaysReplaced ==
    (fetch.pc # "call" /\ EndsWithTmp(fetch.name)) =>
        /\ ~EndsWithTmp(fetch.out)
        /\ Len(fetch.out) > Len(Stem(fetch.name))
        /\ SubSeq(fetch.out, 1, Len(Stem(fetch.name))) = Stem(fetch.name)

(***************************************************************************)
(* C34: filename_for returns a non-empty name that does not end in .tmp as *)
(* it is; a name that ends in .tmp with that suffix replaced by the        *)
(* extension _mime_ext has for the content type, and as it is when the     *)
(* content type is not in _mime_ext; for an empty name the name _fallback  *)
(* has for the content type, or attachment.bin.  Called again on its       *)
(* result with the same content type it returns that result.               *)
(***************************************************************************)
C34_FilenameFor ==
    /\ (fetch.pc # "call" /\ fetch.name # << >> /\ ~EndsWithTmp(fetch.name)) =>
          fetch.out = fetch.name
    /\ (fetch.pc # "call" /\ EndsWithTmp(fetch.name)) =>
          fetch.out = IF fetch.mime \in DOMAIN _mime_ext
                      THEN Stem(fetch.name) \o <<".">> \o _mime_ext[fetch.mime]
                      ELSE fetch.name
    /\ (fetch.pc # "call" /\ fetch.name = << >>) =>
          fetch.out = IF fetch.mime \in DOMAIN _fallback
                      THEN _fallback[fetch.mime] ELSE AttachmentBin
    /\ fetch.pc = "renamed" => fetch.again = fetch.out

\* a.tmp with image/jpeg became a.jpg, and a.jpg stayed a.jpg.
C34_Witness ==
    /\ fetch.pc = "renamed"
    /\ fetch.name = <<"a", ".", "t", "m", "p">>
    /\ fetch.mime = "image/jpeg"
    /\ fetch.out = <<"a", ".", "j", "p", "g">>
    /\ fetch.again = fetch.out

(***************************************************************************)
(* services/db.py: MessageDB, the table message_mappings(bridge_id,        *)
(* instance_id, channel_id, platform_msg_id) with primary key              *)
(* (instance_id, platform_msg_id).                                         *)
(***************************************************************************)
MaxSaves == 3
MaxDbErrors == 1

BridgeIds == {"b1", "b2"}
DbInstances == {"a", "b"}
\* channel ids, the empty string among them
ChannelStrs == {"", "x"}
PlatformMsgIds == {"1", "2"}
\* the default of get_platform_msg_id's channel_id: None
NoChannel == "None"

Row(b, i, c, p) ==
    [bridge_id |-> b, instance_id |-> i, channel_id |-> c, platform_msg_id |-> p]

\* cursor.fetchone(): a row of the result, or None
NoRow == [found |-> FALSE, value |-> ""]
Found(v) == [found |-> TRUE, value |-> v]

\* A mutant of insert_or_replace: a plain INSERT into a table without the key.
insert_plain(rows, r) == rows \cup {r}

\* INSERT OR REPLACE under PRIMARY KEY (instance_id, platform_msg_id): the row
\* that has the key of the new one is deleted, the new one is inserted.
insert_or_replace(rows, r) ==
    { x \in rows : ~(x.instance_id = r.instance_id
                     /\ x.platform_msg_id = r.platform_msg_id) } \cup {r}

\* The rows the SELECT of get_bridge_id matches.
select_bridge_id(rows, i, p) ==
    { x \in rows : x.instance_id = i /\ x.platform_msg_id = p }

\* The rows the SELECT of get_platform_msg_id matches: `if channel_id:` is
\* false for None and for the empty string, and the channel is then not
\* compared.
select_platform_msg_id(rows, b, i, c) ==
    IF c # NoChannel /\ c # ""
    THEN { x \in rows : x.bridge_id = b /\ x.instance_id = i /\ x.channel_id = c }
    ELSE { x \in rows : x.bridge_id = b /\ x.instance_id = i }

DbIdle == UNCHANGED <<phase, rules, senders, sensitive, config, started, calls,
                      sent, tasks, registry, fetch>>

\* MessageDB.save_mapping; `fails`: execute or commit raises, the error is
\* logged and the table is as it was.
SaveMapping(b, i, c, p, fails) ==
    /\ Len(db.saved) < MaxSaves
    /\ fails => Len(log) < MaxDbErrors
    /\ db' = IF fails THEN [db EXCEPT !.q = [op |-> "none"]]
             ELSE [db EXCEPT !.rows = insert_or_replace(@, Row(b, i, c, p)),
                             !.saved = Append(@, Row(b, i, c, p)),
                             !.q = [op |-> "none"]]
    /\ log' = IF fails THEN Append(log, LogRec("error", "db", "save failed")) ELSE log
    /\ DbIdle

\* MessageDB.get_bridge_id
GetBridgeId(i, p) ==
    /\ LET m == select_bridge_id(db.rows, i, p)
       IN  \E ans \in IF m = {} THEN {NoRow} ELSE { Found(x.bridge_id) : x \in m } :
             db' = [db EXCEPT !.q = [op |-> "get_bridge_id", instance_id |-> i,
                                     platform_msg_id |-> p, bridge_id |-> "",
                                     channel_id |-> "", result |-> ans]]
    /\ UNCHANGED log
    /\ DbIdle

\* MessageDB.get_platform_msg_id
GetPlatformMsgId(b, i, c) ==
    /\ LET m == select_platform_msg_id(db.rows, b, i, c)
       IN  \E ans \in IF m = {} THEN {NoRow} ELSE { Found(x.platform_msg_id) : x \in m } :
             db' = [db EXCEPT !.q = [op |-> "get_platform_msg_id", instance_id |-> i,
                                     platform_msg_id |-> "", bridge_id |-> b,
                                     channel_id |-> c, result |-> ans]]
    /\ UNCHANGED log
    /\ DbIdle

InitDB ==
    /\ phase = "running"
    /\ rules = << >>
    /\ senders = EmptyDict
    /\ sensitive = {}
    /\ config = JDict(<< >>)
    /\ started = << >>
    /\ calls = << >>
    /\ sent = << >>
    /\ tasks = << >>
    /\ log = << >>
    /\ registry = Imported
    /\ fetch = NoFetch
    /\ db = EmptyDB

NextDB ==
    \/ \E b \in BridgeIds, i \in DbInstances, c \in ChannelStrs, p \in PlatformMsgIds,
          fails \in BOOLEAN : SaveMapping(b, i, c, p, fails)
    \/ \E i \in DbInstances, p \in PlatformMsgIds : GetBridgeId(i, p)
    \/ \E b \in BridgeIds, i \in DbInstances, c \in ChannelStrs \cup {NoChannel} :
          GetPlatformMsgId(b, i, c)

SpecDB == InitDB /\ [][NextDB]_vars

\* The committed saves for the pair (i, p), oldest first.
SavesOf(i, p) ==
    SelectSeq(db.saved, LAMBDA r : r.instance_id = i /\ r.platform_msg_id = p)

(***************************************************************************)
(* C35: the table has at most one row per (instance_id, platform_msg_id);  *)
(* get_bridge_id(i, p) answers with the bridge_id of the last committed    *)
(* save for (i, p), and with none when there was no such save.             *)
(***************************************************************************)
C35_MappingStoreKey ==
    /\ \A x, y \in db.rows :
          (x.instance_id = y.instance_id /\ x.platform_msg_id = y.platform_msg_id)
              => x = y
    /\ db.q.op = "get_bridge_id" =>
          LET h == SavesOf(db.q.instance_id, db.q.platform_msg_id)
          IN  db.q.result = IF h = << >> THEN NoRow ELSE Found(h[Len(h)].bridge_id)

\* A pair was saved twice with different bridge ids and asked for.
C35_Witness ==
    /\ db.q.op = "get_bridge_id"
    /\ LET h == SavesOf(db.q.instance_id, db.q.platform_msg_id)
       IN  /\ Len(h) = 2
           /\ h[1].bridge_id # h[2].bridge_id
           /\ db.q.result = Found(h[2].bridge_id)

\* The answer of get_platform_msg_id is an id whose row is (b, i, c), and
\* none exactly when the table has no row (b, i, c).
AnswerIsOwnRow ==
    LET q == db.q
        own == { x \in db.rows : /\ x.bridge_id = q.bridge_id
                                 /\ x.instance_id = q.instance_id
                                 /\ x.channel_id = q.channel_id }
    IN  IF own = {} THEN ~q.result.found
        ELSE /\ q.result.found
             /\ \E x \in own : x.platform_msg_id = q.result.value

(***************************************************************************)
(* C36: get_platform_msg_id(b, i, c), c being a channel id that            *)
(* save_mapping may have stored, answers with the platform_msg_id of a row *)
(* (b, i, c) of the table, and with none when the table has no such row.   *)
(***************************************************************************)
C36_ReplyLookup ==
    (db.q.op = "get_platform_msg_id" /\ db.q.channel_id \in ChannelStrs)
        => AnswerIsOwnRow

\* The same for channel ids that are not empty.
LookupWithChannel ==
    (db.q.op = "get_platform_msg_id" /\ db.q.channel_id \in ChannelStrs \ {""})
        => AnswerIsOwnRow

\* A lookup with a channel was answered from a table that has rows of the same
\* bridge id and instance in another channel.
LookupWithChannelSeen ==
    /\ db.q.op = "get_platform_msg_id"
    /\ db.q.channel_id = "x"
    /\ db.q.result.found
    /\ \E x \in db.rows : /\ x.bridge_id = db.q.bridge_id
                          /\ x.instance_id = db.q.instance_id
                          /\ x.channel_id # "x"

(***************************************************************************)
(* C37: no call of on_message is ended by an exception of the expansion of *)
(* a msg_format (the IndexError of a positional placeholder, the           *)
(* ValueError of a single brace; the other values of the msg block being   *)
(* ones that expand): the call goes on to the remaining targets and rules  *)
(* and returns to the driver.                                              *)
(***************************************************************************)
C37_TemplateFailureContained ==
    \A k \in DOMAIN calls :
        LET c == calls[k]
            cfg == IF c.ti = 0 THEN rules[c.ri].msg ELSE TargetMsgCfg(rules[c.ri], c.ti)
        IN  (c.st = "aborted" /\ ExtraExc(cfg, Ctx(c.msg)) = "none")
                => c.exc \notin {"IndexError", "ValueError"}

\* The driver task has run its register_sender.
HasRegistered(n) ==
    \/ started[n].platform \in RegistersAtStart
    \/ tasks[n].st # "login" /\ tasks[n].was # "login"

(***************************************************************************)
(* C38: no two driver tasks that were started have the same instance_id,   *)
(* and the entry `senders` has for the id of a driver that has registered  *)
(* is the send of that driver.                                             *)
(***************************************************************************)
C38_InstanceIdsUnique ==
    /\ \A i, j \in DOMAIN started :
          i # j => started[i].instance_id # started[j].instance_id
    /\ \A n \in DOMAIN started :
          HasRegistered(n) =>
              /\ started[n].instance_id \in DOMAIN senders
              /\ senders[started[n].instance_id] = SendOf(started[n])

\* No two platforms of the config file have an instance of the same id.
IdsDifferAcrossPlatforms ==
    \A i, j \in DOMAIN DriverTasks(config) :
        i # j => DriverTasks(config)[i].instance_id # DriverTasks(config)[j].instance_id

\* C38 for config files whose instance ids differ across platforms.
SendersOwnedWhenIdsDiffer ==
    (phase \in {"spawn", "running"} /\ IdsDifferAcrossPlatforms)
        => C38_InstanceIdsUnique

(***************************************************************************)
(* C40: a target that a call skipped because the instance had no sender    *)
(* is never invoked for that call, also not once the instance has          *)
(* registered; every invocation is made for an instance that has a sender  *)
(* in the step that makes it.                                              *)
(***************************************************************************)
C40_DroppedForGood ==
    /\ [](\A k \in DOMAIN calls, ri \in DOMAIN rules :
            \A ti \in DOMAIN Targets(rules[ri]) :
                HasEvent(calls[k], ri, ti, {"nosender"}) => Count(k, ri, ti) = 0)
    /\ [][ \A n \in DOMAIN sent' :
              n > Len(sent) => sent'[n].target \in DOMAIN senders ]_vars

\* A call skipped a target that had no sender and has returned; the instance
\* has registered since, and the call was not handed to it.
C40_Witness ==
    \E k \in DOMAIN calls, ri \in DOMAIN rules :
        \E ti \in DOMAIN Targets(rules[ri]) :
            /\ calls[k].st = "done"
            /\ HasEvent(calls[k], ri, ti, {"nosender"})
            /\ TargetId(rules[ri], ti) \in DOMAIN senders
            /\ TargetId(rules[ri], ti) \notin DOMAIN calls[k].snd
            /\ Count(k, ri, ti) = 0

(***************************************************************************)
(* The bridge with its supervisor: the drivers of SupConfig run, end and   *)
(* are cancelled while the Telegram instance delivers messages under a     *)
(* rule that forwards them to the other two instances.                     *)
(***************************************************************************)
\* TelegramDriver._on_message: the update handler of a polling application
ReceiveWhileServing(m) ==
    /\ \E n \in DOMAIN started :
          /\ FromDriver(started[n], m)
          /\ tasks[n].st = "serving"
    /\ ReceiveAwait(m)

InitLife ==
    /\ db = EmptyDB
    /\ phase = "config"
    /\ rules = << RulePool[1] >>
    /\ senders = EmptyDict
    /\ config = SupConfig
    /\ sensitive = _collect_sensitive(config)
    /\ started = << >>
    /\ calls = << >>
    /\ sent = << >>
    /\ tasks = << >>
    /\ log = << >>
    /\ registry = Imported
    /\ fetch = NoFetch

NextLife ==
    \/ ValidateConfig
    \/ \E t \in TaskPool : StartDriver(t)
    \/ \E t \in TaskPool : RegisterLate(t)
    \/ \E n \in 1..Len(Registry) : Connect(n)
    \/ \E n \in 1..Len(Registry), err \in {"closed", "ClientError", "Other"} :
          ConnectionEnds(n, err)
    \/ \E n \in 1..Len(Registry) : BackoffOver(n)
    \/ \E n \in 1..Len(Registry) : ServeFails(n)
    \/ GatherReturns
    \/ CancelMain
    \/ \E n \in 1..Len(Registry) : TaskCancelled(n)
    \/ Drain
    \/ ReceiveWhileServing(MsgPool[1])
    \/ \E k \in 1..MaxMsgs, outcome \in {"ok", "raise"} : SenderReturns(k, outcome)

SpecLife == InitLife /\ [][NextLife]_vars

(***************************************************************************)
(* C39: no step takes an entry out of `senders`; a driver that has         *)
(* registered has its entry whether its start() is running, has returned,  *)
(* has raised or was cancelled; and a call that has returned has invoked   *)
(* every target that had a sender when the call began, whatever has become *)
(* of the target's driver.                                                 *)
(***************************************************************************)
C39_SendersOnlyGrow ==
    /\ [][ \A id \in DOMAIN senders : id \in DOMAIN senders' ]_vars
    /\ [](\A n \in DOMAIN started :
            HasRegistered(n) => started[n].instance_id \in DOMAIN senders)
    /\ [](\A k \in DOMAIN calls :
            calls[k].st = "done" =>
                \A ri \in DOMAIN rules :
                    SourceAccepts(calls[k].msg, rules[ri]) =>
                        \A ti \in DOMAIN Targets(rules[ri]) :
                            Deliverable(calls[k], rules[ri], ti)
                                => Count(k, ri, ti) = 1)

\* Every driver task is done, one returned, one raised and one cancelled, all
\* three senders are in the table, and a call has invoked the sender of the
\* driver whose start() had returned before any message came.
C39_Witness ==
    /\ \A n \in DOMAIN tasks : TaskDone(tasks[n])
    /\ \E n \in DOMAIN tasks : tasks[n].st = "raised"
    /\ \E n \in DOMAIN tasks : tasks[n].st = "cancelled"
    /\ \A n \in DOMAIN started : started[n].instance_id \in DOMAIN senders
    /\ \E n \in DOMAIN started, i \in DOMAIN sent :
          /\ started[n].platform = "webhook"
          /\ tasks[n].st = "returned"
          /\ sent[i].fn = SendOf(started[n])

====
